---- MODULE Spec2Model ----
(***************************************************************************)
(* Model of the spreadsheet structural-analysis and chart-reconstruction   *)
(* engine (src/src/lib/excelAnalyzer.ts, src/src/lib/openai.ts).           *)
(*                                                                         *)
(* Strings are sequences of one-character strings.  Numbers are fixed-     *)
(* point integers counting tenths (15 is 1.5), so that "is an integer" is  *)
(* a property the model can refute.  Grids are sequences of rows, rows are *)
(* sequences of cells; the code's zero-based index i is position i + 1.    *)
(***************************************************************************)
EXTENDS Integers, Sequences, FiniteSets, TLC

VARIABLES
    pc,          \* position of the operation being animated
    colIndex,    \* getColumnLetter: the index given
    colLetter,   \* getColumnLetter: the letter returned
    colNum,      \* colToNum: the index read back
    rangeParts,  \* parseRange: the columns, rows and anchor style the text is written from
    rangeText,   \* parseRange: the range text given
    rangeOut,    \* parseRange: the result for rangeText
    plainOut,    \* parseRange: the result for the same range written without anchors
    sheetData,   \* the sheet grid the caller supplies
    reference,   \* extractDataFromSheet: the cell reference given
    values,      \* extractDataFromSheet: the values returned
    raised,      \* extractDataFromSheet: whether the call raised a TypeError
    chartParts,  \* the choices the chart XML and its grid are written from
    chartXml,    \* the chart-definition part given
    parsedInfo,  \* parseChartXml: the ParsedChartInfo returned
    chartData,   \* buildChartData: the ChartData returned, NoChart for null
    chartInfo,   \* parseChartXmlToInfo: the ChartInfo returned for the same part
    typeParts,   \* the choices a data column is written from
    allValues,   \* the cells of the column, one per data row
    sampleValues, \* the first SAMPLE_SIZE cells of the column
    colType,     \* detectColumnType: the type and distinct count returned
    descData,    \* extractCodebook: the grid of the description sheet given
    codebookOut, \* extractCodebook: the Codebook returned, NoCodebook for null
    buffer,      \* analyzeExcelStructure: the file given, as its sheets, chart parts and images
    workbook,    \* the sheets XLSX.read returns, in workbook order
    sheetIdx,    \* second pass: the sheet the loop is at
    sheets,      \* the sheet summaries collected
    codebook,    \* the codebook the first pass leaves, NoCodebook for null
    chartXmls,   \* extractFromXlsx: the chart parts found
    images,      \* extractFromXlsx: the number of embedded images found
    sheetDataArray, \* the grid of the first sheet of more than two rows
    chartIdx,    \* chart loop: the chart part the loop is at
    analyzedCharts, \* the ChartInfo collected
    chartUsage,  \* the token usage accumulated
    rendered,    \* chart images rendered so far
    visionCalls, \* vision descriptions asked for so far
    result,      \* what the call returned or threw, pending until then
    threw,       \* the chart parts whose processing threw
    visionLog,   \* the vision calls made: part, outcome, usage reported
    billed,      \* the usages the route charged the user for
    tasks,       \* chart parts processed as concurrent tasks: position, ChartInfo, usage seen
    pageImages,  \* processPagesConcurrently: the page images given, one per page
    concurrency, \* processPagesConcurrently: the concurrency limit given
    currentIndex, \* the index the next worker iteration takes
    results,     \* the results array, EmptySlot where nothing is stored yet
    workers,     \* per worker: awaiting the page of an index, or finished
    taken,       \* the indices taken by `currentIndex++`, in the order taken
    pagesOut,    \* the array processPagesConcurrently returned
    balance,     \* user_profiles.balance of the user, as stored
    openingBalance, \* the balance stored before the requests began
    requests,    \* per request: the balance operation it calls and how far it is
    session,     \* the Stripe checkout session: payment_status and metadata.total_credit
    checkouts,   \* per caller of processCompletedCheckout: how far the call is
    transactions \* the rows logTransaction inserted for the session

colVars == <<colIndex, colLetter, colNum>>
rangeVars == <<rangeParts, rangeText, rangeOut, plainOut>>
resolveVars == <<reference, values, raised>>
chartVars == <<chartParts, chartXml, parsedInfo, chartData, chartInfo>>
typeVars == <<typeParts, allValues, sampleValues, colType>>
codebookVars == <<descData, codebookOut>>
analyzeVars == <<buffer, workbook, sheetIdx, sheets, codebook, chartXmls, images, sheetDataArray,
                 chartIdx, analyzedCharts, chartUsage, rendered, visionCalls, result, threw, visionLog, billed, tasks>>
pdfVars == <<pageImages, concurrency, currentIndex, results, workers, taken, pagesOut>>
balanceVars == <<balance, openingBalance, requests>>
checkoutVars == <<session, checkouts, transactions>>
serviceVars == <<pdfVars, balanceVars, checkoutVars>>
coreVars == <<colVars, rangeVars, sheetData, resolveVars, chartVars, serviceVars>>
excelVars == <<colVars, rangeVars, sheetData, resolveVars, chartVars, typeVars, codebookVars, analyzeVars>>
restVars == <<typeVars, codebookVars, analyzeVars, serviceVars>>
vars == <<pc, colVars, rangeVars, sheetData, resolveVars, chartVars, restVars>>

\* F applied to the value of e, e evaluated once: a local constant of the code
With(e, F(_)) == CHOOSE r \in {F(x) : x \in {e}} : TRUE

(***************************************************************************)
(* Characters                                                              *)
(***************************************************************************)
Upper == <<"A","B","C","D","E","F","G","H","I","J","K","L","M",
           "N","O","P","Q","R","S","T","U","V","W","X","Y","Z">>
Lower == <<"a","b","c","d","e","f","g","h","i","j","k","l","m",
           "n","o","p","q","r","s","t","u","v","w","x","y","z">>
DigitChars == <<"0","1","2","3","4","5","6","7","8","9">>

IsLetter(c) == \E i \in 1..26 : Upper[i] = c \/ Lower[i] = c
IsDigit(c) == \E i \in 1..10 : DigitChars[i] = c
\* charCodeAt of the upper-cased letter, minus 64
LetterPos(c) == CHOOSE i \in 1..26 : Upper[i] = c \/ Lower[i] = c
DigitVal(c) == (CHOOSE i \in 1..10 : DigitChars[i] = c) - 1

toLowerChar(c) == IF \E i \in 1..26 : Upper[i] = c
                  THEN Lower[CHOOSE i \in 1..26 : Upper[i] = c] ELSE c
toLowerCase(s) == [i \in 1..Len(s) |-> toLowerChar(s[i])]

RECURSIVE parseIntLoop(_, _)
parseIntLoop(s, acc) ==
    IF s = <<>> THEN acc ELSE parseIntLoop(Tail(s), acc * 10 + DigitVal(Head(s)))
\* parseInt of a non-empty run of decimal digits
parseInt(s) == parseIntLoop(s, 0)

\* s with every character satisfying no Keep test removed: String.replace(/[..]/g, '')
RECURSIVE removeChars(_, _)
removeChars(s, drop) ==
    IF s = <<>> THEN <<>>
    ELSE IF Head(s) \in drop THEN removeChars(Tail(s), drop)
         ELSE <<Head(s)>> \o removeChars(Tail(s), drop)

(***************************************************************************)
(* Column letters                                                          *)
(***************************************************************************)
RECURSIVE getColumnLetterLoop(_, _)
getColumnLetterLoop(index, letter) ==
    IF index >= 0
    THEN getColumnLetterLoop((index \div 26) - 1, <<Upper[(index % 26) + 1]>> \o letter)
    ELSE letter

getColumnLetterNoCarry(index) ==
    IF index < 26 THEN <<Upper[index + 1]>>
    ELSE getColumnLetterLoop(index \div 26, <<Upper[(index % 26) + 1]>>)

getColumnLetter(index) == getColumnLetterLoop(index, <<>>)

RECURSIVE colToNumLoop(_, _)
colToNumLoop(col, num) ==
    IF col = <<>> THEN num
    ELSE colToNumLoop(Tail(col), num * 26 + LetterPos(Head(col)))

colToNum(col) == colToNumLoop(col, 0) - 1

(***************************************************************************)
(* Cells and grids                                                         *)
(***************************************************************************)
\* A raw cell value: k is its JavaScript kind, n its number (in tenths),
\* s its text.  "undefined" is what indexing past a row or a grid yields.
Null == [k |-> "null", n |-> 0, s |-> <<>>]
Undefined == [k |-> "undefined", n |-> 0, s |-> <<>>]
Num(n) == [k |-> "number", n |-> n, s |-> <<>>]
Str(s) == [k |-> "string", n |-> 0, s |-> s]
Bool(b) == [k |-> "boolean", n |-> IF b THEN 1 ELSE 0, s |-> <<>>]
DateVal(n) == [k |-> "date", n |-> n, s |-> <<>>]

\* val !== null && val !== undefined && val !== ''
NonBlank(val) == val # Null /\ val # Undefined /\ val # Str(<<>>)

\* sheetData[row]?.[col] with the code's zero-based row and col
At(grid, row, col) ==
    IF row + 1 \in 1..Len(grid)
    THEN IF col + 1 \in 1..Len(grid[row + 1])
         THEN grid[row + 1][col + 1] ELSE Undefined
    ELSE Undefined

Min(a, b) == IF a < b THEN a ELSE b
Max(a, b) == IF a > b THEN a ELSE b

(***************************************************************************)
(* Cell Reference Resolver (openai.ts)                                     *)
(***************************************************************************)
\* positions of character c in s
Positions(s, c) == {i \in 1..Len(s) : s[i] = c}
SetMin(S) == CHOOSE x \in S : \A y \in S : x <= y

\* { sheet?, range }: only range is read by the callers
parseCellReference(ref) ==
    LET rest == IF ref = <<>> THEN <<>> ELSE Tail(ref)
        q == Positions(rest, "'")
        close == IF q = {} THEN 0 ELSE SetMin(q) + 1   \* the closing quote, in ref
        quoted == /\ Len(ref) >= 1 /\ ref[1] = "'"
                  /\ close >= 3
                  /\ Len(ref) >= close + 2
                  /\ ref[close + 1] = "!"
        bangs == Positions(ref, "!")
    IN  IF quoted
        THEN [sheet |-> SubSeq(ref, 2, close - 1), range |-> SubSeq(ref, close + 2, Len(ref))]
        ELSE IF Cardinality(bangs) = 1
             THEN [sheet |-> SubSeq(ref, 1, SetMin(bangs) - 1),
                   range |-> SubSeq(ref, SetMin(bangs) + 1, Len(ref))]
             ELSE [sheet |-> <<>>, range |-> ref]

\* length of the longest prefix of s whose characters all satisfy the class
RECURSIVE LetterRun(_)
LetterRun(s) == IF s # <<>> /\ IsLetter(Head(s)) THEN 1 + LetterRun(Tail(s)) ELSE 0
RECURSIVE DigitRun(_)
DigitRun(s) == IF s # <<>> /\ IsDigit(Head(s)) THEN 1 + DigitRun(Tail(s)) ELSE 0

\* ([A-Z]+)(\d+) at the start of s, case-insensitive; rest is what follows
MatchCell(s) ==
    With(LetterRun(s), LAMBDA l :
    With(DigitRun(SubSeq(s, l + 1, Len(s))), LAMBDA d :
        [ok |-> l >= 1 /\ d >= 1,
         letters |-> SubSeq(s, 1, l),
         digits |-> SubSeq(s, l + 1, l + d),
         rest |-> SubSeq(s, l + d + 1, Len(s))]))

NoRange == [ok |-> FALSE, startCol |-> 0, startRow |-> 0, endCol |-> 0, endRow |-> 0,
            isSingleCell |-> FALSE]

parseRangeOneBased(range) ==
    With(MatchCell(removeChars(range, {"$"})), LAMBDA a :
    With(MatchCell(IF a.rest = <<>> THEN <<>> ELSE Tail(a.rest)), LAMBDA b :
        IF a.ok /\ a.rest # <<>> /\ Head(a.rest) = ":" /\ b.ok /\ b.rest = <<>>
        THEN [ok |-> TRUE,
              startCol |-> colToNum(a.letters) + 1, startRow |-> parseInt(a.digits),
              endCol |-> colToNum(b.letters) + 1, endRow |-> parseInt(b.digits),
              isSingleCell |-> FALSE]
        ELSE IF a.ok /\ a.rest = <<>>
        THEN [ok |-> TRUE,
              startCol |-> colToNum(a.letters) + 1, startRow |-> parseInt(a.digits),
              endCol |-> colToNum(a.letters) + 1, endRow |-> parseInt(a.digits),
              isSingleCell |-> TRUE]
        ELSE NoRange))

parseRange(range) ==
    With(MatchCell(removeChars(range, {"$"})), LAMBDA a :
    With(MatchCell(IF a.rest = <<>> THEN <<>> ELSE Tail(a.rest)), LAMBDA b :
        IF a.ok /\ a.rest # <<>> /\ Head(a.rest) = ":" /\ b.ok /\ b.rest = <<>>
        THEN [ok |-> TRUE,
              startCol |-> colToNum(a.letters), startRow |-> parseInt(a.digits) - 1,
              endCol |-> colToNum(b.letters), endRow |-> parseInt(b.digits) - 1,
              isSingleCell |-> FALSE]
        ELSE IF a.ok /\ a.rest = <<>>
        THEN [ok |-> TRUE,
              startCol |-> colToNum(a.letters), startRow |-> parseInt(a.digits) - 1,
              endCol |-> colToNum(a.letters), endRow |-> parseInt(a.digits) - 1,
              isSingleCell |-> TRUE]
        ELSE NoRange))

\* the cells (row, col) for row = r0 .. r1, in that order
ColumnCells(grid, col, r0, r1) ==
    [i \in 1..Max(0, r1 - r0 + 1) |-> At(grid, r0 + i - 1, col)]
\* the cells (row, col) for col = c0 .. c1, in that order
RowCells(grid, row, c0, c1) ==
    [i \in 1..Max(0, c1 - c0 + 1) |-> At(grid, row, c0 + i - 1)]

\* the 2D branch: outer loop over columns, inner loop over rows
RECURSIVE Flatten2D(_, _, _, _, _)
Flatten2D(grid, col, endCol, r0, r1) ==
    IF col > endCol THEN <<>>
    ELSE SelectSeq(ColumnCells(grid, col, r0, r1), NonBlank)
         \o Flatten2D(grid, col + 1, endCol, r0, r1)

\* a row-major flattening: outer loop over rows, inner loop over columns
RECURSIVE Flatten2DRowMajor(_, _, _, _, _)
Flatten2DRowMajor(grid, c0, c1, row, endRow) ==
    IF row > endRow THEN <<>>
    ELSE SelectSeq(RowCells(grid, row, c0, c1), NonBlank)
         \o Flatten2DRowMajor(grid, c0, c1, row + 1, endRow)

extractDataFromSheetRowMajor(grid, ref) ==
    With(parseRange(parseCellReference(ref).range), LAMBDA parsed :
        IF ~parsed.ok THEN <<>>
        ELSE Flatten2DRowMajor(grid, parsed.startCol, parsed.endCol,
                               parsed.startRow, Min(parsed.endRow, Len(grid) - 1)))

extractDataFromSheet(grid, ref) ==
    With(parseRange(parseCellReference(ref).range), LAMBDA parsed :
    With(Min(parsed.endRow, Len(grid) - 1), LAMBDA lastRow :
    With(At(grid, parsed.startRow, parsed.startCol), LAMBDA one :
        IF ~parsed.ok THEN <<>>
        ELSE IF parsed.isSingleCell
        THEN IF one # Null /\ one # Undefined THEN <<one>> ELSE <<>>
        ELSE IF parsed.startCol = parsed.endCol
        THEN SelectSeq(ColumnCells(grid, parsed.startCol, parsed.startRow, lastRow),
                       NonBlank)
        ELSE IF parsed.startRow = parsed.endRow
        THEN SelectSeq(RowCells(grid, parsed.startRow, parsed.startCol, parsed.endCol),
                       NonBlank)
        ELSE Flatten2D(grid, parsed.startCol, parsed.endCol, parsed.startRow, lastRow))))

\* sheetData[row][col]: a TypeError when the grid has no such row
PlainReadRaises(grid, row) == row + 1 \notin 1..Len(grid)
\* sheetData[row]?.[col]: undefined when the grid has no such row
RowReadRaises(grid, row) == FALSE

\* whether a read made by extractDataFromSheet raises
extractDataFromSheetRaises(grid, ref) ==
    With(parseRange(parseCellReference(ref).range), LAMBDA parsed :
    With(Min(parsed.endRow, Len(grid) - 1), LAMBDA lastRow :
    With(At(grid, parsed.startRow, parsed.startCol), LAMBDA one :
        IF ~parsed.ok THEN FALSE
        ELSE IF parsed.isSingleCell
        THEN \/ RowReadRaises(grid, parsed.startRow)
             \/ one # Null /\ one # Undefined /\ PlainReadRaises(grid, parsed.startRow)
        ELSE IF parsed.startCol = parsed.endCol
        THEN \E row \in parsed.startRow..lastRow : RowReadRaises(grid, row)
        ELSE IF parsed.startRow = parsed.endRow
        THEN parsed.startCol <= parsed.endCol /\ RowReadRaises(grid, parsed.startRow)
        ELSE /\ parsed.startCol <= parsed.endCol
             /\ \E row \in parsed.startRow..lastRow : RowReadRaises(grid, row))))

(***************************************************************************)
(* Number and string conversions                                           *)
(***************************************************************************)
NaN == [nan |-> TRUE, n |-> 0]
Finite(n) == [nan |-> FALSE, n |-> n]

IsSpace(c) == c = " "
RECURSIVE trimStart(_)
trimStart(s) == IF s # <<>> /\ IsSpace(Head(s)) THEN trimStart(Tail(s)) ELSE s
RECURSIVE trimEnd(_)
trimEnd(s) == IF s # <<>> /\ IsSpace(s[Len(s)]) THEN trimEnd(SubSeq(s, 1, Len(s) - 1)) ELSE s
trim(s) == trimEnd(trimStart(s))

\* parseFloat: leading blanks, a sign, digits, a fraction; what follows is ignored.
\* The value is in tenths; the texts drawn carry at most one decimal and no exponent.
parseFloat(s) ==
    With(trimStart(s), LAMBDA t :
    With(IF t # <<>> /\ Head(t) \in {"-", "+"} THEN Tail(t) ELSE t, LAMBDA u :
    With(DigitRun(u), LAMBDA i :
    With(SubSeq(u, i + 1, Len(u)), LAMBDA rest :
    With(IF rest # <<>> /\ Head(rest) = "." THEN DigitRun(Tail(rest)) ELSE 0, LAMBDA f :
    With((IF i = 0 THEN 0 ELSE parseInt(SubSeq(u, 1, i))) * 10
         + (IF f >= 1 THEN DigitVal(rest[2]) ELSE 0), LAMBDA mag :
        IF i = 0 /\ f = 0 THEN NaN
        ELSE Finite(IF t # <<>> /\ Head(t) = "-" THEN 0 - mag ELSE mag)))))))

\* String(n) for an integer n >= 0
RECURSIVE ToDigits(_)
ToDigits(n) == IF n < 10 THEN <<DigitChars[n + 1]>>
               ELSE ToDigits(n \div 10) \o <<DigitChars[(n % 10) + 1]>>

\* String(v) for a number v held in tenths
NumToString(n) ==
    LET mag == IF n < 0 THEN 0 - n ELSE n
    IN  (IF n < 0 THEN <<"-">> ELSE <<>>) \o ToDigits(mag \div 10)
        \o (IF mag % 10 = 0 THEN <<>> ELSE <<".", DigitChars[(mag % 10) + 1]>>)

\* String(v) for a cell value
StringOf(v) ==
    IF v.k = "number" THEN NumToString(v.n)
    ELSE IF v.k = "boolean" THEN (IF v.n = 1 THEN <<"t","r","u","e">> ELSE <<"f","a","l","s","e">>)
    ELSE IF v.k = "date" THEN <<"M","o","n"," ">> \o ToDigits(v.n)
    ELSE IF v.k = "null" THEN <<"n","u","l","l">>
    ELSE IF v.k = "undefined" THEN <<"u","n","d","e","f","i","n","e","d">>
    ELSE v.s

(***************************************************************************)
(* Chart Definition Parser (openai.ts)                                     *)
(*                                                                         *)
(* A chart XML text is the sequence of its elements in document order: an  *)
(* opening tag <c:NAME ...> is [tag |-> NAME, val |-> its val attribute or *)
(* its text], a closing tag of a series is [tag |-> "/ser"].  The code     *)
(* reads the text with substring tests and lazy regular expressions, which *)
(* on this form are "a token with this tag exists" and "the first token    *)
(* with tag B, and a non-empty text, after the first token with tag A".    *)
(***************************************************************************)
Tok(tag) == [tag |-> tag, val |-> <<>>]
TokV(tag, val) == [tag |-> tag, val |-> val]

None == [has |-> FALSE, s |-> <<>>]
Some(s) == [has |-> TRUE, s |-> s]
\* JavaScript truthiness of an optional string
Truthy(o) == o.has /\ o.s # <<>>

\* xml.includes('<c:TAG')
Includes(xml, tag) == \E i \in 1..Len(xml) : xml[i].tag = tag

\* index of the first token with this tag at or after from, 0 if none
FirstTag(xml, tag, from) ==
    LET S == {i \in from..Len(xml) : xml[i].tag = tag}
    IN  IF from = 0 \/ S = {} THEN 0 ELSE SetMin(S)
\* index of the first token with this tag and a non-empty text at or after from
FirstText(xml, tag, from) ==
    LET S == {i \in from..Len(xml) : xml[i].tag = tag /\ xml[i].val # <<>>}
    IN  IF from = 0 \/ S = {} THEN 0 ELSE SetMin(S)
TextAt(xml, i) == IF i = 0 THEN None ELSE Some(xml[i].val)
Next1(i) == IF i = 0 THEN 0 ELSE i + 1

\* /<c:TAG\s+val="([^"]+)"/
AttrMatch(xml, tag) == TextAt(xml, FirstText(xml, tag, 1))
\* /<c:A>[\s\S]*?<LEAF>([^<]+)<\/LEAF>/
TextAfter(xml, a, leaf) == TextAt(xml, FirstText(xml, leaf, Next1(FirstTag(xml, a, 1))))
\* /<c:A>[\s\S]*?<c:B>[\s\S]*?<LEAF>([^<]+)<\/LEAF>/
TextAfter2(xml, a, b, leaf) ==
    TextAt(xml, FirstText(xml, leaf, Next1(FirstTag(xml, b, Next1(FirstTag(xml, a, 1))))))

\* the bodies matched by /<c:ser>([\s\S]*?)<\/c:ser>/g, in order
RECURSIVE SeriesBlocks(_, _)
SeriesBlocks(xml, from) ==
    With(FirstTag(xml, "ser", from), LAMBDA open :
    With(FirstTag(xml, "/ser", Next1(open)), LAMBDA close :
        IF open = 0 \/ close = 0 THEN <<>>
        ELSE <<SubSeq(xml, open + 1, close - 1)>> \o SeriesBlocks(xml, close + 1)))

\* one series block: { name, valueRef, color }
ParseSeries(seriesXml) ==
    With(TextAfter(seriesXml, "val", "f"), LAMBDA val :
    With(AttrMatch(seriesXml, "srgbClr"), LAMBDA color :
        [name |-> TextAfter(seriesXml, "tx", "v"),
         valueRef |-> IF Truthy(val) THEN val ELSE TextAfter(seriesXml, "yVal", "f"),
         color |-> IF color.has THEN Some(<<"#">> \o color.s) ELSE None]))

HasValueRef(series) == Truthy(series.valueRef)

\* the kind of the chart element that comes first in the document
detectChartTypeInDocumentOrder(xml) ==
    With(SelectSeq(xml, LAMBDA tok : tok.tag \in
            {"barChart", "bar3DChart", "lineChart", "line3DChart", "pieChart", "pie3DChart",
             "doughnutChart", "scatterChart", "areaChart", "area3DChart", "radarChart"}),
         LAMBDA found :
            IF found = <<>> THEN "bar"
            ELSE IF found[1].tag \in {"barChart", "bar3DChart"} THEN "bar"
            ELSE IF found[1].tag \in {"lineChart", "line3DChart"} THEN "line"
            ELSE IF found[1].tag \in {"pieChart", "pie3DChart"} THEN "pie"
            ELSE IF found[1].tag = "doughnutChart" THEN "doughnut"
            ELSE IF found[1].tag = "scatterChart" THEN "scatter"
            ELSE IF found[1].tag \in {"areaChart", "area3DChart"} THEN "area"
            ELSE "radar")

detectChartType(xml) ==
    IF Includes(xml, "barChart") THEN "bar"
    ELSE IF Includes(xml, "bar3DChart") THEN "bar"
    ELSE IF Includes(xml, "lineChart") \/ Includes(xml, "line3DChart") THEN "line"
    ELSE IF Includes(xml, "pieChart") \/ Includes(xml, "pie3DChart") THEN "pie"
    ELSE IF Includes(xml, "doughnutChart") THEN "doughnut"
    ELSE IF Includes(xml, "scatterChart") THEN "scatter"
    ELSE IF Includes(xml, "areaChart") \/ Includes(xml, "area3DChart") THEN "area"
    ELSE IF Includes(xml, "radarChart") THEN "radar"
    ELSE "bar"

\* a parser that takes any direction attribute of a bar chart for horizontal
detectHorizontalAnyDir(xml) ==
    (Includes(xml, "barChart") \/ Includes(xml, "bar3DChart")) /\ AttrMatch(xml, "barDir").has

detectHorizontal(xml) ==
    IF Includes(xml, "barChart") \/ Includes(xml, "bar3DChart")
    THEN AttrMatch(xml, "barDir") = Some(<<"b", "a", "r">>)
    ELSE FALSE

\* the series of the XML, those without a value reference dropped
ParseAllSeries(xml) ==
    With(SeriesBlocks(xml, 1), LAMBDA blocks :
        SelectSeq([i \in 1..Len(blocks) |-> ParseSeries(blocks[i])], HasValueRef))

OptTrim(o) == IF o.has THEN Some(trim(o.s)) ELSE None

parseChartXml(xml) ==
    With(ParseAllSeries(xml), LAMBDA seriesRefs :
    With(OptTrim(TextAfter(xml, "title", "a:t")), LAMBDA title :
        [chartType |-> detectChartType(xml),
         horizontal |-> detectHorizontal(xml),
         stacked |-> AttrMatch(xml, "grouping")
                         \in {Some(<<"s","t","a","c","k","e","d">>),
                              Some(<<"p","e","r","c","e","n","t","S","t","a","c","k","e","d">>)},
         title |-> IF ~Truthy(title) /\ Len(seriesRefs) > 0 /\ Truthy(seriesRefs[1].name)
                   THEN seriesRefs[1].name ELSE title,
         xAxisTitle |-> OptTrim(TextAfter2(xml, "catAx", "title", "a:t")),
         yAxisTitle |-> OptTrim(TextAfter2(xml, "valAx", "title", "a:t")),
         categoryRef |-> TextAfter(xml, "cat", "f"),
         seriesRefs |-> seriesRefs]))

(***************************************************************************)
(* Chart Model Builder (openai.ts)                                         *)
(***************************************************************************)
\* Array.prototype.slice(0, n)
Slice(s, n) == SubSeq(s, 1, Min(n, Len(s)))

\* the number a raw value is converted to; NaN when it is none
toNumber(v) ==
    IF v \in {Null, Undefined, Str(<<>>)} THEN NaN
    ELSE IF v.k = "number" THEN Finite(v.n)
    ELSE parseFloat(StringOf(v))

IsNumber(x) == ~x.nan
\* rawData.map(toNumber).filter(n => !isNaN(n) && isFinite(n))
NumericValues(rawData) ==
    With(SelectSeq([i \in 1..Len(rawData) |-> toNumber(rawData[i])], IsNumber), LAMBDA kept :
        [i \in 1..Len(kept) |-> kept[i].n])

SeriesLabel == <<"S", "e", "r", "i", "e", "s">>
BuildDataset(series, grid) ==
    [label |-> IF Truthy(series.name) THEN series.name.s ELSE SeriesLabel,
     data |-> NumericValues(extractDataFromSheet(grid, series.valueRef.s)),
     color |-> series.color]
\* a filter that keeps the datasets without numbers too
KeepsEveryDataset(ds) == TRUE
\* .filter(ds => ds.data.length > 0)
HasData(ds) == Len(ds.data) > 0

RECURSIVE MaxLength(_)
MaxLength(datasets) ==
    IF Len(datasets) = 1 THEN Len(datasets[1].data)
    ELSE Max(Len(datasets[1].data), MaxLength(Tail(datasets)))

\* Math.min(...datasets.map(ds => ds.data.length)), datasets not empty
RECURSIVE NormalLength(_)
NormalLength(datasets) ==
    IF Len(datasets) = 1 THEN Len(datasets[1].data)
    ELSE Min(Len(datasets[1].data), NormalLength(Tail(datasets)))

NoChart == [ok |-> FALSE, type |-> "", horizontal |-> FALSE, stacked |-> FALSE,
            title |-> None, xAxisTitle |-> None, yAxisTitle |-> None,
            labels |-> <<>>, datasets |-> <<>>]

\* the labels: the category cells as strings, none without a category reference
ResolveLabels(parsed, grid) ==
    IF Truthy(parsed.categoryRef)
    THEN With(extractDataFromSheet(grid, parsed.categoryRef.s), LAMBDA catData :
             [i \in 1..Len(catData) |-> StringOf(catData[i])])
    ELSE <<>>

buildChartData(xml, grid) ==
    With(parseChartXml(xml), LAMBDA parsed :
    With(ResolveLabels(parsed, grid), LAMBDA labels :
    With(SelectSeq([i \in 1..Len(parsed.seriesRefs) |->
                       BuildDataset(parsed.seriesRefs[i], grid)], HasData), LAMBDA datasets :
        IF Len(datasets) = 0 THEN NoChart
        ELSE With(NormalLength(datasets), LAMBDA dataLength :
             [ok |-> TRUE,
              type |-> parsed.chartType,
              horizontal |-> parsed.horizontal,
              stacked |-> parsed.stacked,
              title |-> parsed.title,
              xAxisTitle |-> parsed.xAxisTitle,
              yAxisTitle |-> parsed.yAxisTitle,
              labels |-> IF Len(labels) = 0
                         THEN [i \in 1..dataLength |-> ToDigits(i)]
                         ELSE Slice(labels, dataLength),
              datasets |-> [i \in 1..Len(datasets) |->
                               [datasets[i] EXCEPT !.data = Slice(@, dataLength)]]]))))

(***************************************************************************)
(* Column Type Classifier (excelAnalyzer.ts)                               *)
(***************************************************************************)
CATEGORICAL_MAX_UNIQUE == 20
SAMPLE_SIZE == 100

\* each digit of s replaced by "d": the shape the date patterns test
DigitShape(s) == [i \in 1..Len(s) |-> IF IsDigit(s[i]) THEN "d" ELSE s[i]]

\* /^\d{4}-\d{2}-\d{2}$/, /^\d{2}\/\d{2}\/\d{4}$/, /^\d{2}-\d{2}-\d{4}$/ and the
\* twelve shapes of /^\d{1,2}\/\d{1,2}\/\d{2,4}$/
DateShapes ==
    {<<"d", "d", "d", "d", "-", "d", "d", "-", "d", "d">>, <<"d", "d", "/", "d", "d", "/", "d", "d", "d", "d">>, <<"d", "d", "-", "d", "d", "-", "d", "d", "d", "d">>}
    \cup {a \o <<"/">> \o b \o <<"/">> \o c :
            a \in {<<"d">>, <<"d", "d">>}, b \in {<<"d">>, <<"d", "d">>}, c \in {<<"d", "d">>, <<"d", "d", "d">>, <<"d", "d", "d", "d">>}}
MonthNames == {<<"j", "a", "n">>, <<"f", "e", "b">>, <<"m", "a", "r">>, <<"a", "p", "r">>, <<"m", "a", "y">>, <<"j", "u", "n">>,
               <<"j", "u", "l">>, <<"a", "u", "g">>, <<"s", "e", "p">>, <<"o", "c", "t">>, <<"n", "o", "v">>, <<"d", "e", "c">>}

isDateString(str) ==
    With(trim(str), LAMBDA s :
        \/ DigitShape(s) \in DateShapes
        \/ Len(s) >= 3 /\ toLowerCase(SubSeq(s, 1, 3)) \in MonthNames)

\* the strings the classifier takes for booleans
BooleanStrings == {<<"t", "r", "u", "e">>, <<"f", "a", "l", "s", "e">>, <<"T", "R", "U", "E">>, <<"F", "A", "L", "S", "E">>}

\* the category one non-blank sample value is counted in
ValueCategory(val) ==
    IF val.k = "boolean" \/ (val.k = "string" /\ val.s \in BooleanStrings) THEN "boolean"
    ELSE IF val.k = "number" THEN "numeric"
    ELSE IF val.k = "date" THEN "date"
    ELSE IF val.k = "string"
    THEN IF ~parseFloat(removeChars(val.s, {",", "$", "%"})).nan /\ trim(val.s) # <<>>
         THEN "numeric"
         ELSE IF isDateString(val.s) THEN "date" ELSE "text"
    ELSE "text"

\* number | null, as [nan, n]: nan stands for the null result
extractNumericValue(val) ==
    IF val.k = "number" THEN Finite(val.n)
    ELSE IF val.k = "string" THEN parseFloat(removeChars(val.s, {",", "$", "%", " "}))
    ELSE NaN

\* new Set(allValues.map(extractNumericValue).filter(n => n !== null))
UniqueNums(column) ==
    {extractNumericValue(column[i]).n :
        i \in {j \in 1..Len(column) : ~extractNumericValue(column[j]).nan}}

\* Number.isInteger of a number held in tenths
IsInteger(n) == n % 10 = 0

\* a rule on the size of the codes instead of their number
IsCategoricalByMagnitude(uniqueNums) ==
    /\ \A n \in uniqueNums : n <= CATEGORICAL_MAX_UNIQUE * 10
    /\ \A n \in uniqueNums : IsInteger(n)

IsCategorical(uniqueNums) ==
    /\ Cardinality(uniqueNums) <= CATEGORICAL_MAX_UNIQUE
    /\ \A n \in uniqueNums : IsInteger(n)

CountOf(cats, c) == Cardinality({i \in 1..Len(cats) : cats[i] = c})
\* the half of the sample is enough
ReachesHalf(count, total) == 2 * count >= total
\* count / total >= 0.8
ReachesThreshold(count, total) == 5 * count >= 4 * total

\* uniqueCount is -1 where the code leaves it undefined
TypeOnly(type) == [type |-> type, uniqueCount |-> 0 - 1]

detectColumnType(sample, column) ==
    With(SelectSeq(sample, NonBlank), LAMBDA nonNullValues :
    With([i \in 1..Len(nonNullValues) |-> ValueCategory(nonNullValues[i])], LAMBDA cats :
    With(Len(nonNullValues), LAMBDA total :
        IF total = 0 THEN TypeOnly("text")
        ELSE IF ReachesThreshold(CountOf(cats, "boolean"), total) THEN TypeOnly("boolean")
        ELSE IF ReachesThreshold(CountOf(cats, "date"), total) THEN TypeOnly("date")
        ELSE IF ReachesThreshold(CountOf(cats, "text"), total) THEN TypeOnly("text")
        ELSE IF ReachesThreshold(CountOf(cats, "numeric"), total)
        THEN With(UniqueNums(column), LAMBDA uniqueNums :
                 IF IsCategorical(uniqueNums)
                 THEN [type |-> "categorical", uniqueCount |-> Cardinality(uniqueNums)]
                 ELSE [type |-> "numeric", uniqueCount |-> Cardinality(uniqueNums)])
        ELSE TypeOnly("text"))))

(***************************************************************************)
(* Codebook Extraction (excelAnalyzer.ts)                                  *)
(***************************************************************************)
\* JavaScript falsiness of a cell: null, undefined, '', 0, false
Falsy(v) ==
    \/ v.k \in {"null", "undefined"}
    \/ v.k = "string" /\ v.s = <<>>
    \/ v.k \in {"number", "boolean"} /\ v.n = 0

\* row[i] with the code's zero-based i
RowCell(row, i) == IF i + 1 \in 1..Len(row) THEN row[i + 1] ELSE Undefined

\* String(cell || '').trim(), and the same for row[2] ? String(row[2]).trim() : ''
CellText(v) == IF Falsy(v) THEN <<>> ELSE trim(StringOf(v))

\* s.includes(sub)
StrIncludes(s, sub) == \E i \in 1..(Len(s) - Len(sub) + 1) : SubSeq(s, i, i + Len(sub) - 1) = sub
\* s.startsWith(pre)
startsWith(s, pre) == Len(s) >= Len(pre) /\ SubSeq(s, 1, Len(pre)) = pre

\* /^column\s*[a-z]$/i
IsColumnLetterRef(s) ==
    /\ Len(s) >= 7
    /\ toLowerCase(SubSeq(s, 1, 6)) = <<"c", "o", "l", "u", "m", "n">>
    /\ \A i \in 7..(Len(s) - 1) : IsSpace(s[i])
    /\ IsLetter(s[Len(s)])

\* the header rows the scan skips
IsHeaderRow(firstCell, secondCell) ==
    /\ StrIncludes(toLowerCase(firstCell), <<"c", "o", "l", "u", "m", "n">>)
    /\ StrIncludes(toLowerCase(secondCell), <<"v", "a", "r", "i", "a", "b", "l", "e">>)

\* codebook[key] = value
Put(book, key, value) ==
    [x \in (DOMAIN book) \cup {key} |-> IF x = key THEN value ELSE book[x]]

\* the description of a column-letter row taken from the second cell alone
SecondCellOnly(secondCell, thirdCell) == secondCell

\* thirdCell || secondCell
ThirdOrSecond(secondCell, thirdCell) == IF thirdCell # <<>> THEN thirdCell ELSE secondCell

\* one turn of the scan
CodebookStep(book, row) ==
    IF Len(row) < 2 THEN book
    ELSE With(CellText(RowCell(row, 0)), LAMBDA firstCell :
         With(CellText(RowCell(row, 1)), LAMBDA secondCell :
         With(CellText(RowCell(row, 2)), LAMBDA thirdCell :
            IF IsHeaderRow(firstCell, secondCell) THEN book
            ELSE IF IsColumnLetterRef(firstCell) /\ secondCell # <<>>
            THEN Put(book, secondCell, ThirdOrSecond(secondCell, thirdCell))
            ELSE IF firstCell # <<>> /\ secondCell # <<>>
                    /\ ~startsWith(toLowerCase(firstCell), <<"c", "o", "l", "u", "m", "n">>)
            THEN Put(book, firstCell, secondCell)
            ELSE book)))

\* the codebook after the first n rows
RECURSIVE CodebookScan(_, _)
CodebookScan(data, n) ==
    IF n = 0 THEN <<>> ELSE CodebookStep(CodebookScan(data, n - 1), data[n])

\* Codebook | null
NoCodebook == [has |-> FALSE, map |-> <<>>]
\* a result that is a codebook whatever the scan found
CodebookAlways(book) == [has |-> TRUE, map |-> book]
\* Object.keys(codebook).length > 0 ? codebook : null
CodebookOrNull(book) ==
    IF DOMAIN book # {} THEN [has |-> TRUE, map |-> book] ELSE NoCodebook

extractCodebook(data) ==
    IF Len(data) < 2 THEN NoCodebook
    ELSE CodebookOrNull(CodebookScan(data, Len(data)))

(***************************************************************************)
(* Workbook Structural Reader (excelAnalyzer.ts)                           *)
(***************************************************************************)
\* DESCRIPTION_SHEET_PATTERNS.some(p => p.test(sheetName))
DESCRIPTION_SHEET_PATTERNS ==
    {<<"d", "e", "s", "c", "r", "i", "p", "t", "i", "o", "n">>, <<"c", "o", "d", "e", "b", "o", "o", "k">>, <<"c", "o", "d", "e", "s">>, <<"l", "e", "g", "e", "n", "d">>, <<"m", "e", "t", "a", "d", "a", "t", "a">>, <<"i", "n", "f", "o">>, <<"v", "a", "r", "i", "a", "b", "l", "e", "s">>}
IsDescriptionSheet(sheetName) == toLowerCase(sheetName) \in DESCRIPTION_SHEET_PATTERNS

\* the codebook variable after the first pass over the first n sheets: every
\* matching sheet assigns it anew
RECURSIVE FirstPass(_, _)
FirstPass(wb, n) ==
    IF n = 0 THEN NoCodebook
    ELSE IF IsDescriptionSheet(wb[n].name) THEN extractCodebook(wb[n].data)
    ELSE FirstPass(wb, n - 1)

\* the header texts: Column N for a blank header cell
Headers(data) ==
    [i \in 1..Len(data[1]) |->
        IF NonBlank(data[1][i]) THEN trim(StringOf(data[1][i]))
        ELSE <<"C", "o", "l", "u", "m", "n", " ">> \o ToDigits(i)]

\* dataRows.some(row => row[idx] is not blank), idx zero-based
ColumnHasData(data, idx) == \E r \in 2..Len(data) : NonBlank(RowCell(data[r], idx))
nonEmptyColumnIndices(data) == {idx \in 0..(Len(data[1]) - 1) : ColumnHasData(data, idx)}

\* the data rows with at least one non-blank cell
RowCount(data) ==
    Cardinality({r \in 2..Len(data) : \E i \in 1..Len(data[r]) : NonBlank(data[r][i])})

\* dataRows.map(row => row[colIdx])
ColumnValues(data, idx) == [r \in 1..(Len(data) - 1) |-> RowCell(data[r + 1], idx)]

RECURSIVE SumSeq(_)
SumSeq(s) == IF s = <<>> THEN 0 ELSE Head(s) + SumSeq(Tail(s))
SetMax(S) == CHOOSE x \in S : \A y \in S : x >= y

\* ColumnStats | null: min and max in tenths, avg in hundredths (Math.round(x * 100) / 100)
NoStats == [has |-> FALSE, min |-> 0, max |-> 0, avg |-> 0, uniqueCount |-> 0]
calculateStats(column) ==
    With(SelectSeq([i \in 1..Len(column) |-> extractNumericValue(column[i])],
                   LAMBDA x : ~x.nan), LAMBDA found :
    With([i \in 1..Len(found) |-> found[i].n], LAMBDA numbers :
        IF Len(numbers) = 0 THEN NoStats
        ELSE [has |-> TRUE,
              min |-> SetMin({numbers[i] : i \in 1..Len(numbers)}),
              max |-> SetMax({numbers[i] : i \in 1..Len(numbers)}),
              avg |-> (20 * SumSeq(numbers) + Len(numbers)) \div (2 * Len(numbers)),
              uniqueCount |-> Cardinality({numbers[i] : i \in 1..Len(numbers)})]))

\* the detection for the column at idx: the first SAMPLE_SIZE cells, and all of them
ColumnDetection(data, idx) ==
    detectColumnType(Slice(ColumnValues(data, idx), SAMPLE_SIZE), ColumnValues(data, idx))

\* columns[colLetter] = colInfo for the non-empty columns among the first n
RECURSIVE ColumnsUpTo(_, _)
ColumnsUpTo(data, n) ==
    IF n = 0 THEN <<>>
    ELSE IF ~ColumnHasData(data, n - 1) THEN ColumnsUpTo(data, n - 1)
    ELSE With(ColumnDetection(data, n - 1), LAMBDA d :
            Put(ColumnsUpTo(data, n - 1), getColumnLetter(n - 1),
                [header |-> Headers(data)[n], type |-> d.type, uniqueValues |-> d.uniqueCount]))

\* stats[colName] = colStats for the numeric columns among the first n
RECURSIVE StatsUpTo(_, _)
StatsUpTo(data, n) ==
    IF n = 0 THEN <<>>
    ELSE IF ColumnHasData(data, n - 1) /\ ColumnDetection(data, n - 1).type = "numeric"
            /\ calculateStats(ColumnValues(data, n - 1)).has
    THEN Put(StatsUpTo(data, n - 1), Headers(data)[n], calculateStats(ColumnValues(data, n - 1)))
    ELSE StatsUpTo(data, n - 1)

\* the sheets the second pass leaves out
SkipsSheet(data) == Len(data) < 2 \/ nonEmptyColumnIndices(data) = {}

\* ExcelSheetSummary; stats with no key stands for the field left out
SheetSummary(sheet) ==
    [name |-> sheet.name,
     rowCount |-> RowCount(sheet.data),
     columns |-> ColumnsUpTo(sheet.data, Len(sheet.data[1])),
     stats |-> StatsUpTo(sheet.data, Len(sheet.data[1]))]

\* a check that lets a workbook without valid sheets through
NeverEmpty(summaries) == FALSE
\* sheets.length === 0
NoValidSheets(summaries) == Len(summaries) = 0

\* xml.includes('<c:...Chart') in the order parseChartXmlToInfo tests them
InfoChartType(xml) ==
    IF Includes(xml, "barChart") THEN "bar"
    ELSE IF Includes(xml, "bar3DChart") THEN "bar3D"
    ELSE IF Includes(xml, "lineChart") THEN "line"
    ELSE IF Includes(xml, "line3DChart") THEN "line3D"
    ELSE IF Includes(xml, "pieChart") THEN "pie"
    ELSE IF Includes(xml, "pie3DChart") THEN "pie3D"
    ELSE IF Includes(xml, "doughnutChart") THEN "doughnut"
    ELSE IF Includes(xml, "scatterChart") THEN "scatter"
    ELSE IF Includes(xml, "areaChart") THEN "area"
    ELSE IF Includes(xml, "radarChart") THEN "radar"
    ELSE IF Includes(xml, "bubbleChart") THEN "bubble"
    ELSE "unknown"

\* the non-empty texts of the tokens with this tag, in order: matchAll(/<TAG>([^<]+)<\/TAG>/g)
AllTexts(xml, tag) ==
    With(SelectSeq(xml, LAMBDA tok : tok.tag = tag /\ tok.val # <<>>), LAMBDA found :
        [i \in 1..Len(found) |-> found[i].val])

\* the texts matched by /<c:tx>[\s\S]*?<c:v>([^<]+)<\/c:v>/g, in order
RECURSIVE SeriesNameTexts(_, _)
SeriesNameTexts(xml, from) ==
    With(FirstTag(xml, "tx", from), LAMBDA open :
    With(FirstText(xml, "v", Next1(open)), LAMBDA at :
        IF open = 0 \/ at = 0 THEN <<>>
        ELSE <<xml[at].val>> \o SeriesNameTexts(xml, at + 1)))

\* if (x && !list.includes(x) && list.length < cap) list.push(x), over found from n on
RECURSIVE PushDistinct(_, _, _, _)
PushDistinct(found, n, list, cap) ==
    IF n > Len(found) THEN list
    ELSE IF (\E j \in 1..Len(list) : list[j] = found[n]) \/ Len(list) >= cap
         THEN PushDistinct(found, n + 1, list, cap)
         ELSE PushDistinct(found, n + 1, Append(list, found[n]), cap)

\* the text of the ChartInfo analysis, as the parts it is concatenated from
AnalysisText(chartType, title, series, xAxis, yAxis, dataRange) ==
    <<"chart", chartType, title, series, xAxis, yAxis, dataRange>>

\* ChartInfo of chart part i: type, title, axes, the first five distinct references
\* (dataRange joins them), the first ten distinct series names, and the analysis
\* text built from these
parseChartXmlToInfo(i, xml) ==
    With(TextAfter(xml, "title", "a:t"), LAMBDA title :
    With(TextAfter2(xml, "catAx", "title", "a:t"), LAMBDA xAxis :
    With(TextAfter2(xml, "valAx", "title", "a:t"), LAMBDA yAxis :
    With(PushDistinct(AllTexts(xml, "f"), 1, <<>>, 5), LAMBDA dataRange :
    With(PushDistinct(SeriesNameTexts(xml, 1), 1, <<>>, 10), LAMBDA series :
        [imageFile |-> <<"chart", i>>,
         chartType |-> InfoChartType(xml),
         title |-> title, xAxis |-> xAxis, yAxis |-> yAxis,
         dataRange |-> dataRange, series |-> series,
         analysis |-> AnalysisText(InfoChartType(xml), title, series, xAxis, yAxis,
                                   dataRange)])))))

\* an extraction that lets the AdmZip error out
extractFromXlsxUncaught(buf) ==
    IF buf.container = "zip"
    THEN [images |-> buf.images, chartXmls |-> buf.charts, thrown |-> FALSE]
    ELSE [images |-> 0, chartXmls |-> <<>>, thrown |-> TRUE]

\* { images, chartXmls }: new AdmZip(buffer) throws on what is no zip container, the
\* catch logs it and the two lists are returned empty; thrown tells whether the call
\* itself threw, which it never does
extractFromXlsx(buf) ==
    IF buf.container = "zip"
    THEN [images |-> buf.images, chartXmls |-> buf.charts, thrown |-> FALSE]
    ELSE [images |-> 0, chartXmls |-> <<>>, thrown |-> FALSE]

\* workbook.SheetNames.find(data.length > 2), then its grid; [] when there is none
FirstDataSheet(wb) ==
    IF \E i \in 1..Len(wb) : Len(wb[i].data) > 2
    THEN wb[SetMin({i \in 1..Len(wb) : Len(wb[i].data) > 2})].data
    ELSE <<>>

NoUsage == [input_tokens |-> 0, output_tokens |-> 0, total_tokens |-> 0]
AddUsage(a, b) ==
    [input_tokens |-> a.input_tokens + b.input_tokens,
     output_tokens |-> a.output_tokens + b.output_tokens,
     total_tokens |-> a.total_tokens + b.total_tokens]

(***************************************************************************)
(* Bounds of the inputs drawn                                              *)
(***************************************************************************)
MaxIndex == 1000     \* column indices 0 .. MaxIndex
MaxCol == 2          \* range texts name columns 0 .. MaxCol (and AA)
MaxRow == 10         \* range texts name rows 1 .. MaxRow
MaxGridRows == 3     \* grids of 1 .. MaxGridRows rows
MaxGridCols == 2     \* grids of 1 .. MaxGridCols columns
MaxChartRows == 5    \* chart series of 0 .. MaxChartRows cells
MaxTexts == 2        \* data columns open with 0 .. MaxTexts text cells
MaxInts == 25        \* data columns hold 0 .. MaxInts distinct whole numbers
MaxDescRows == 3     \* description sheets of 0 .. MaxDescRows rows
MaxSheets == 2       \* workbooks of 1 .. MaxSheets sheets
MaxCharts == 2       \* .xlsx files with 0 .. MaxCharts chart parts

ColIdle == colIndex = 0 /\ colLetter = <<>> /\ colNum = 0
RangeIdle == rangeParts = <<>> /\ rangeText = <<>> /\ rangeOut = NoRange /\ plainOut = NoRange
ResolveIdle == reference = <<>> /\ values = <<>> /\ raised = FALSE
TypeIdle == typeParts = <<>> /\ allValues = <<>> /\ sampleValues = <<>> /\ colType = <<>>
CodebookIdle == descData = <<>> /\ codebookOut = <<>>
AnalyzeIdle ==
    /\ buffer = <<>> /\ workbook = <<>> /\ sheetIdx = 0 /\ sheets = <<>> /\ codebook = <<>>
    /\ chartXmls = <<>> /\ images = 0 /\ sheetDataArray = <<>> /\ chartIdx = 0
    /\ analyzedCharts = <<>> /\ chartUsage = <<>> /\ rendered = 0 /\ visionCalls = 0
    /\ result = <<>> /\ threw = {} /\ visionLog = <<>> /\ billed = <<>> /\ tasks = <<>>
PdfIdle ==
    /\ pageImages = <<>> /\ concurrency = 0 /\ currentIndex = 0 /\ results = <<>>
    /\ workers = <<>> /\ taken = <<>> /\ pagesOut = <<>>
BalanceIdle == balance = 0 /\ openingBalance = 0 /\ requests = <<>>
CheckoutIdle == session = <<>> /\ checkouts = <<>> /\ transactions = <<>>
ServiceIdle == PdfIdle /\ BalanceIdle /\ CheckoutIdle
RestIdle == TypeIdle /\ CodebookIdle /\ AnalyzeIdle /\ ServiceIdle
ChartIdle == chartParts = <<>> /\ chartXml = <<>> /\ parsedInfo = <<>> /\ chartData = <<>> /\ chartInfo = <<>>
ExcelCoreIdle == ColIdle /\ RangeIdle /\ ResolveIdle /\ ChartIdle /\ sheetData = <<>>
CoreIdle == ExcelCoreIdle /\ ServiceIdle
ExcelIdle == ExcelCoreIdle /\ TypeIdle /\ CodebookIdle /\ AnalyzeIdle

(***************************************************************************)
(* SpecCol: an index converted to a letter key and read back               *)
(***************************************************************************)
InitCol ==
    /\ pc = "col:start"
    /\ colIndex \in 0..MaxIndex
    /\ colLetter = <<>> /\ colNum = 0
    /\ RangeIdle /\ ResolveIdle /\ ChartIdle /\ sheetData = <<>>
    /\ RestIdle

ToLetter ==
    /\ pc = "col:start"
    /\ colLetter' = getColumnLetter(colIndex)
    /\ pc' = "col:letter"
    /\ UNCHANGED <<colIndex, colNum, rangeVars, sheetData, resolveVars, chartVars, restVars>>

ToIndex ==
    /\ pc = "col:letter"
    /\ colNum' = colToNum(colLetter)
    /\ pc' = "col:done"
    /\ UNCHANGED <<colIndex, colLetter, rangeVars, sheetData, resolveVars, chartVars, restVars>>

NextCol == ToLetter \/ ToIndex
SpecCol == InitCol /\ [][NextCol]_vars

\* C3: for every index n in 0 .. MaxIndex, colToNum(getColumnLetter(n)) = n, and no
\* other index in that interval gets the same letter key.
ColumnLetterRoundTrip ==
    pc = "col:done" =>
        /\ colNum = colIndex
        /\ \A m \in 0..MaxIndex : m # colIndex => getColumnLetter(m) # colLetter

\* the round trip has run for a two-letter column past Z
ColumnLetterRoundTripWitness ==
    pc = "col:done" /\ colIndex = 26 /\ colLetter = <<"A", "A">> /\ colNum = 26

(***************************************************************************)
(* SpecRange: a range written with and without `$` anchors, both parsedInfo    *)
(***************************************************************************)
AnchorStyles == {"plain", "abs", "colabs", "rowabs"}
RangeCols == (0..MaxCol) \cup {26}

\* one cell address, e.g. $B$10, from a zero-based column and a one-based row
WriteCell(col, row, style) ==
    (IF style \in {"abs", "colabs"} THEN <<"$">> ELSE <<>>) \o getColumnLetter(col)
    \o (IF style \in {"abs", "rowabs"} THEN <<"$">> ELSE <<>>) \o ToDigits(row)

WriteRange(p, style) ==
    IF p.shape = "cell" THEN WriteCell(p.c1, p.r1, style)
    ELSE IF p.shape = "range"
    THEN WriteCell(p.c1, p.r1, style) \o <<":">> \o WriteCell(p.c2, p.r2, style)
    ELSE WriteCell(p.c1, p.r1, style) \o <<":">>      \* no second corner: unparsable

InitRange ==
    /\ pc = "range:start"
    /\ rangeParts \in [shape : {"cell", "range", "bad"}, style : AnchorStyles,
                       c1 : RangeCols, r1 : 1..MaxRow, c2 : {0, 1}, r2 : {1, MaxRow}]
    /\ rangeParts.shape # "range" => rangeParts.c2 = 0 /\ rangeParts.r2 = 1
    /\ rangeText = WriteRange(rangeParts, rangeParts.style)
    /\ rangeOut = NoRange /\ plainOut = NoRange
    /\ ColIdle /\ ResolveIdle /\ ChartIdle /\ sheetData = <<>>
    /\ RestIdle

ParseAnchored ==
    /\ pc = "range:start"
    /\ rangeOut' = parseRange(rangeText)
    /\ pc' = "range:anchored"
    /\ UNCHANGED <<rangeParts, rangeText, plainOut, colVars, sheetData, resolveVars, chartVars, restVars>>

ParsePlain ==
    /\ pc = "range:anchored"
    /\ plainOut' = parseRange(WriteRange(rangeParts, "plain"))
    /\ pc' = "range:done"
    /\ UNCHANGED <<rangeParts, rangeText, rangeOut, colVars, sheetData, resolveVars, chartVars, restVars>>

NextRange == ParseAnchored \/ ParsePlain
SpecRange == InitRange /\ [][NextRange]_vars

\* C6: parseRange gives the same result for a range written with `$` anchors and
\* written without them; a range C1R1:C2R2 yields the zero-based corners
\* (col, row - 1) with isSingleCell false, a single cell yields start = end with
\* isSingleCell true.
ParseRangeZeroBased ==
    pc = "range:done" =>
        /\ rangeOut = plainOut
        /\ rangeParts.shape = "range" =>
             rangeOut = [ok |-> TRUE,
                         startCol |-> rangeParts.c1, startRow |-> rangeParts.r1 - 1,
                         endCol |-> rangeParts.c2, endRow |-> rangeParts.r2 - 1,
                         isSingleCell |-> FALSE]
        /\ rangeParts.shape = "cell" =>
             rangeOut = [ok |-> TRUE,
                         startCol |-> rangeParts.c1, startRow |-> rangeParts.r1 - 1,
                         endCol |-> rangeParts.c1, endRow |-> rangeParts.r1 - 1,
                         isSingleCell |-> TRUE]

\* $A$1:$B$10 has been parsedInfo to (0, 0) - (1, 9)
ParseRangeZeroBasedWitness ==
    /\ pc = "range:done"
    /\ rangeText = <<"$", "A", "$", "1", ":", "$", "B", "$", "1", "0">>
    /\ rangeOut = [ok |-> TRUE, startCol |-> 0, startRow |-> 0, endCol |-> 1, endRow |-> 9,
                   isSingleCell |-> FALSE]

(***************************************************************************)
(* SpecResolve: a cell reference resolved against a grid                   *)
(***************************************************************************)
\* a grid whose cell in row r, column c (one-based) holds the number 10 r + c
FullGrid(rows, cols) == [r \in 1..rows |-> [c \in 1..cols |-> Num(10 * (10 * r + c))]]

\* full grids, grids with one null or empty-string cell, and grids whose last
\* row is one cell short
Grids ==
    UNION {
        {FullGrid(rows, cols)}
        \cup {[FullGrid(rows, cols) EXCEPT ![r][c] = b] :
                 r \in 1..rows, c \in 1..cols, b \in {Null, Str(<<>>)}}
        \cup {[FullGrid(rows, cols) EXCEPT ![rows] = SubSeq(@, 1, cols - 1)]}
        : rows \in 1..MaxGridRows, cols \in 1..MaxGridCols}

SheetPrefixes ==
    {<<>>, <<"S", "1", "!">>, <<"'", "M", "y", " ", "S", "'", "!">>}

InitResolve ==
    /\ pc = "resolve:start"
    /\ sheetData \in Grids
    /\ rangeParts \in [shape : {"cell", "range", "bad"}, style : {"plain", "abs"},
                       prefix : SheetPrefixes,
                       c1 : {0, 1}, r1 : {1, 2},
                       c2 : 0..MaxGridCols, r2 : 1..(MaxGridRows + 1)]
    /\ rangeParts.shape # "range" => rangeParts.c2 = 0 /\ rangeParts.r2 = 1
    /\ reference = rangeParts.prefix \o WriteRange(rangeParts, rangeParts.style)
    /\ values = <<>> /\ raised = FALSE
    /\ rangeText = <<>> /\ rangeOut = NoRange /\ plainOut = NoRange
    /\ ColIdle /\ ChartIdle
    /\ RestIdle

Extract ==
    /\ pc = "resolve:start"
    /\ raised' = extractDataFromSheetRaises(sheetData, reference)
    /\ values' = IF extractDataFromSheetRaises(sheetData, reference) THEN <<>>
                 ELSE extractDataFromSheet(sheetData, reference)
    /\ pc' = "resolve:done"
    /\ UNCHANGED <<colVars, rangeVars, sheetData, reference, chartVars, restVars>>

NextResolve == Extract
SpecResolve == InitResolve /\ [][NextResolve]_vars

\* the non-blank cells of the grid inside the rectangle (zero-based <<col, row>>)
CellsInRange ==
    {p \in (rangeParts.c1 .. rangeParts.c2) \X ((rangeParts.r1 - 1) .. (rangeParts.r2 - 1)) :
        NonBlank(At(sheetData, p[2], p[1]))}
\* p comes before q in column-major order
ColumnMajorBefore(p, q) == p[1] < q[1] \/ (p[1] = q[1] /\ p[2] < q[2])

\* C5: for a 2D range (start column # end column, start row # end row) the result
\* is the non-blank cells of the range in column-major order: a cell's place in the
\* result is one more than the number of non-blank cells in earlier columns, or
\* higher up in its own column.
ColumnMajorOrder ==
    (/\ pc = "resolve:done"
     /\ rangeParts.shape = "range"
     /\ rangeParts.c1 # rangeParts.c2
     /\ rangeParts.r1 # rangeParts.r2)
    => /\ Len(values) = Cardinality(CellsInRange)
       /\ \A p \in CellsInRange :
            values[Cardinality({q \in CellsInRange : ColumnMajorBefore(q, p)}) + 1]
                = At(sheetData, p[2], p[1])

\* A1:B3 over a full 2-column, 3-row grid gave column A's values, then column B's
ColumnMajorOrderWitness ==
    /\ pc = "resolve:done"
    /\ reference = <<"A", "1", ":", "B", "3">>
    /\ sheetData = FullGrid(3, 2)
    /\ values = <<Num(110), Num(210), Num(310), Num(120), Num(220), Num(320)>>

(***************************************************************************)
(* SpecXml: a chart-definition part parsedInfo                                 *)
(***************************************************************************)
ChartTags == {"barChart", "bar3DChart", "lineChart", "line3DChart", "pieChart",
              "pie3DChart", "doughnutChart", "scatterChart", "areaChart",
              "area3DChart", "radarChart", "bubbleChart"}
\* the values of a direction attribute: bar, col, and an attribute left empty
DirBar == <<"b", "a", "r">>
DirCol == <<"c", "o", "l">>
Dirs == {DirBar, DirCol, <<>>}

TagToken(tag) == IF tag = "none" THEN <<>> ELSE <<Tok(tag)>>
DirToken(d) == IF d = <<"-">> THEN <<>> ELSE <<TokV("barDir", d)>>

\* up to two chart elements, each followed by its direction attribute, if any
WriteXml(p) == TagToken(p.t1) \o DirToken(p.d1) \o TagToken(p.t2) \o DirToken(p.d2)

InitXml ==
    /\ pc = "xml:start"
    /\ chartParts \in [t1 : ChartTags \cup {"none"}, t2 : ChartTags \cup {"none"},
                       d1 : Dirs \cup {<<"-">>}, d2 : Dirs \cup {<<"-">>}]
    /\ chartXml = WriteXml(chartParts)
    /\ parsedInfo = <<>> /\ chartData = <<>> /\ chartInfo = <<>>
    /\ ColIdle /\ RangeIdle /\ ResolveIdle /\ sheetData = <<>>
    /\ RestIdle

ParseXml ==
    /\ pc = "xml:start"
    /\ parsedInfo' = parseChartXml(chartXml)
    /\ pc' = "xml:done"
    /\ UNCHANGED <<colVars, rangeVars, sheetData, resolveVars, chartParts, chartXml, chartData, chartInfo, restVars>>

NextXml == ParseXml
SpecXml == InitXml /\ [][NextXml]_vars

\* the chart XML holds a bar-chart tag, plain or 3-D
HasBarTag == {chartParts.t1, chartParts.t2} \cap {"barChart", "bar3DChart"} # {}
\* the first direction attribute of the XML that has a value; <<"-">> if none
DirectionAttribute ==
    IF chartParts.d1 \notin {<<"-">>, <<>>} THEN chartParts.d1
    ELSE IF chartParts.d2 \notin {<<"-">>, <<>>} THEN chartParts.d2
    ELSE <<"-">>

\* C7: the parsedInfo horizontal flag is true exactly when the XML holds a bar-chart tag
\* (plain or 3-D) and its direction attribute is `bar`; direction `col`, no direction
\* attribute, or no bar-chart tag give false.
HorizontalIffBarDirection ==
    pc = "xml:done" => (parsedInfo.horizontal <=> (HasBarTag /\ DirectionAttribute = DirBar))

\* a 3-D bar chart with direction `bar` was parsedInfo as a horizontal bar chart
HorizontalIffBarDirectionWitness ==
    /\ pc = "xml:done"
    /\ chartXml = <<Tok("bar3DChart"), TokV("barDir", DirBar)>>
    /\ parsedInfo.horizontal /\ parsedInfo.chartType = "bar"

(***************************************************************************)
(* SpecChart: a chart built from its definition and the sheet grid         *)
(***************************************************************************)
\* Column A holds la labels, column B lb numbers (the cell in row bad, if any, holds
\* the text n/a), column C lc numbers written as strings with one decimal.
ValueB(r) == 10 * (10 * r + 2)
ValueC(r) == 10 * (10 * r + 3) + 5
ChartGrid(p) ==
    [r \in 1..MaxChartRows |->
        << IF r <= p.la THEN Str(<<"L">> \o ToDigits(r)) ELSE Null,
           IF r <= p.lb THEN (IF r = p.bad THEN Str(<<"n", "/", "a">>) ELSE Num(ValueB(r)))
           ELSE Null,
           IF r <= p.lc THEN Str(NumToString(ValueC(r))) ELSE Null >>]

\* Sheet1!$X$1:$X$MaxChartRows for column col
ColumnRef(col) ==
    <<"S", "1", "!">>
    \o WriteRange([shape |-> "range", c1 |-> col, r1 |-> 1, c2 |-> col, r2 |-> MaxChartRows],
                  "abs")

\* a series block: its name, its categories (a reference, a literal list, or none)
\* and its values
WriteSeries(name, cat, col) ==
    <<Tok("ser"), Tok("tx"), TokV("v", name)>>
    \o (IF cat = "ref" THEN <<Tok("cat"), TokV("f", ColumnRef(0))>>
        ELSE IF cat = "literal" THEN <<Tok("cat"), TokV("v", <<"x">>)>>
        ELSE <<>>)
    \o <<Tok("val"), TokV("f", ColumnRef(col)), Tok("/ser")>>

WriteChart(p) ==
    <<Tok("barChart"), TokV("barDir", DirCol)>>
    \o WriteSeries(<<"B">>, p.cat, 1)
    \o (IF p.two THEN WriteSeries(<<"C">>, p.cat, 2) ELSE <<>>)

InitChart ==
    /\ pc = "chart:start"
    /\ chartParts \in [la : 0..MaxChartRows, lb : 0..MaxChartRows, lc : 0..MaxChartRows,
                       bad : 0..2, cat : {"none", "ref", "literal"}, two : BOOLEAN]
    /\ ~chartParts.two => chartParts.lc = 0
    /\ chartXml = WriteChart(chartParts)
    /\ sheetData = ChartGrid(chartParts)
    /\ parsedInfo = <<>> /\ chartData = <<>> /\ chartInfo = <<>>
    /\ ColIdle /\ RangeIdle /\ ResolveIdle
    /\ RestIdle

BuildChart ==
    /\ pc = "chart:start"
    /\ chartData' = buildChartData(chartXml, sheetData)
    /\ pc' = "chart:done"
    /\ UNCHANGED <<colVars, rangeVars, sheetData, resolveVars, chartParts, chartXml, parsedInfo, chartInfo, restVars>>

NextChart == BuildChart
SpecChart == InitChart /\ [][NextChart]_vars

\* C1: in every ChartData returned, every dataset's numeric sequence is as long as
\* the label sequence (and so all datasets are equally long).
DatasetsMatchLabels ==
    (pc = "chart:done" /\ chartData.ok) =>
        \A i \in 1..Len(chartData.datasets) :
            Len(chartData.datasets[i].data) = Len(chartData.labels)

\* the numbers of column B and of column C, as the grid was written
IsValue(x) == x >= 0
WrittenB == SelectSeq([r \in 1..chartParts.lb |-> IF r = chartParts.bad THEN 0 - 1 ELSE ValueB(r)],
                      IsValue)
WrittenC == [r \in 1..chartParts.lc |-> ValueC(r)]
WrittenLabels == [r \in 1..chartParts.la |-> <<"L">> \o ToDigits(r)]
NonEmptySeq(s) == s # <<>>
\* the numeric sequences of the surviving series, in series order
Surviving ==
    SelectSeq(<<WrittenB>> \o (IF chartParts.two THEN <<WrittenC>> ELSE <<>>), NonEmptySeq)
ShortestSurviving ==
    CHOOSE n \in 0..MaxChartRows :
        /\ \E i \in 1..Len(Surviving) : Len(Surviving[i]) = n
        /\ \A i \in 1..Len(Surviving) : Len(Surviving[i]) >= n

\* C2: with n the shortest resolved numeric length over the surviving series, every
\* dataset is exactly the first n values of its series, in order, and resolved labels
\* are cut to their first n entries (all of them when there are fewer than n).
TruncatedToShortest ==
    (pc = "chart:done" /\ chartData.ok) =>
        /\ Len(chartData.datasets) = Len(Surviving)
        /\ \A i \in 1..Len(Surviving) :
              chartData.datasets[i].data = SubSeq(Surviving[i], 1, ShortestSurviving)
        /\ (chartParts.cat = "ref" /\ chartParts.la > 0) =>
              chartData.labels =
                  [i \in 1..Min(ShortestSurviving, chartParts.la) |-> WrittenLabels[i]]

\* series of 5 and 3 values with 5 labels gave datasets and labels of length 3
TruncatedToShortestWitness ==
    /\ pc = "chart:done" /\ chartData.ok
    /\ chartParts.la = 5 /\ chartParts.lb = 5 /\ chartParts.lc = 3 /\ chartParts.bad = 0
    /\ chartParts.cat = "ref" /\ chartParts.two
    /\ Len(chartData.datasets) = 2
    /\ Len(chartData.datasets[1].data) = 3 /\ Len(chartData.datasets[2].data) = 3
    /\ chartData.datasets[2].data = <<135, 235, 335>>
    /\ chartData.labels = <<<<"L", "1">>, <<"L", "2">>, <<"L", "3">>>>


(***************************************************************************)
(* SpecType: one data column of a sheet classified                         *)
(***************************************************************************)
ExtraKinds == {"none", "half", "halfText", "dollar", "percent", "big",
               "word", "blank", "flag", "month"}

\* the cell that closes the column
ExtraCell(kind) ==
    IF kind = "half" THEN <<Num(25)>>
    ELSE IF kind = "halfText" THEN <<Str(<<"3", ".", "5">>)>>
    ELSE IF kind = "dollar" THEN <<Str(<<"$", "7">>)>>
    ELSE IF kind = "percent" THEN <<Str(<<"2", ".", "5", "%">>)>>
    ELSE IF kind = "big" THEN <<Num(9990)>>
    ELSE IF kind = "word" THEN <<Str(<<"a", "b", "c">>)>>
    ELSE IF kind = "blank" THEN <<Null>>
    ELSE IF kind = "flag" THEN <<Bool(TRUE)>>
    ELSE IF kind = "month" THEN <<Str(<<"J", "a", "n", " ", "5">>)>>
    ELSE <<>>

\* the whole number i * scale as a cell, written as a number or as its text
WholeCell(n, asText) == IF asText THEN Str(NumToString(n * 10)) ELSE Num(n * 10)

\* text cells, then pad cells holding 1, then the whole numbers, then the closing cell
WriteColumn(p) ==
    [i \in 1..p.t |-> Str(<<"a", "b", "c">>)]
    \o [i \in 1..p.pad |-> Num(10)]
    \o [i \in 1..p.k |-> WholeCell(i * p.scale, p.asText)]
    \o ExtraCell(p.extra)

InitType ==
    /\ pc = "type:start"
    /\ typeParts \in [t : 0..MaxTexts, k : 0..MaxInts, pad : {0, SAMPLE_SIZE},
                      extra : ExtraKinds, scale : {1, 7}, asText : BOOLEAN]
    /\ allValues = WriteColumn(typeParts)
    /\ sampleValues = <<>> /\ colType = <<>>
    /\ CoreIdle /\ CodebookIdle /\ AnalyzeIdle

\* analyzeExcelStructure, one column: the sample is taken and the column classified
ClassifyColumn ==
    /\ pc = "type:start"
    /\ sampleValues' = Slice(allValues, SAMPLE_SIZE)
    /\ colType' = detectColumnType(Slice(allValues, SAMPLE_SIZE), allValues)
    /\ pc' = "type:done"
    /\ UNCHANGED <<typeParts, allValues, coreVars, codebookVars, analyzeVars>>

NextType == ClassifyColumn
SpecType == InitType /\ [][NextType]_vars

\* what the column was written with
ExtraNumber(kind) ==
    IF kind \in {"half", "percent"} THEN {25}
    ELSE IF kind = "halfText" THEN {35}
    ELSE IF kind = "dollar" THEN {70}
    ELSE IF kind = "big" THEN {9990}
    ELSE {}
WrittenNumbers(p) ==
    {i * p.scale * 10 : i \in 1..p.k} \cup (IF p.pad > 0 THEN {10} ELSE {}) \cup ExtraNumber(p.extra)
\* numeric-like and non-blank cells among the first SAMPLE_SIZE cells written
SampleNumeric(p) ==
    IF p.pad > 0 THEN p.pad - p.t
    ELSE p.k + (IF ExtraNumber(p.extra) # {} THEN 1 ELSE 0)
SampleNonBlank(p) ==
    IF p.pad > 0 THEN p.pad
    ELSE p.t + p.k + (IF p.extra \in {"none", "blank"} THEN 0 ELSE 1)
MostlyNumeric(p) ==
    SampleNonBlank(p) > 0 /\ 10 * SampleNumeric(p) >= 8 * SampleNonBlank(p)

\* C4: when at least 80% of the non-blank sample cells are numeric-like, the
\* column is categorical exactly when the distinct numeric values of the whole
\* column are at most 20 and all whole numbers, whatever their size; otherwise
\* it is numeric; the result carries the distinct count either way.
CategoricalByDistinctCount ==
    (pc = "type:done" /\ MostlyNumeric(typeParts)) =>
        /\ colType.uniqueCount = Cardinality(WrittenNumbers(typeParts))
        /\ colType.type \in {"categorical", "numeric"}
        /\ colType.type = "categorical" <=>
              /\ Cardinality(WrittenNumbers(typeParts)) <= 20
              /\ \A n \in WrittenNumbers(typeParts) : n % 10 = 0

\* a fraction beyond the sampled rows makes a column of few whole numbers numeric
CategoricalByDistinctCountWitness ==
    /\ pc = "type:done" /\ MostlyNumeric(typeParts)
    /\ typeParts.pad = SAMPLE_SIZE /\ typeParts.extra = "half" /\ typeParts.k = 3
    /\ colType = [type |-> "numeric", uniqueCount |-> 4]


(***************************************************************************)
(* SpecCodebook: the grid of a description sheet scanned for a codebook    *)
(***************************************************************************)
\* the rows a description sheet is written from
DescRows == {
    <<Str(<<"C", "o", "l", "u", "m", "n", " ", "A">>), Str(<<"A", "g", "e">>), Str(<<"A", "g", "e", " ", "i", "n", " ", "y", "e", "a", "r", "s">>)>>,
    <<Str(<<"C", "o", "l", "u", "m", "n", " ", "B">>), Str(<<"S", "e", "x">>), Str(<<"M", "/", "F">>)>>,
    <<Str(<<"c", "o", "l", "u", "m", "n", " ", " ", "b">>), Str(<<" ", "S", "e", "x", " ">>)>>,
    <<Str(<<"C", "o", "l", "u", "m", "n", " ", "C">>), Str(<<"A", "g", "e">>), Str(<<"Y", "e", "a", "r", "s">>)>>,
    <<Str(<<"C", "o", "l", "u", "m", "n">>), Str(<<"V", "a", "r", "i", "a", "b", "l", "e">>), Str(<<"D", "e", "s", "c", "r", "i", "p", "t", "i", "o", "n">>)>>,
    <<Str(<<"C", "o", "l", "u", "m", "n", " ", "D">>), Str(<<"V", "a", "r", "i", "a", "b", "l", "e", " ", "c", "o", "d", "e">>), Str(<<"x">>)>>,
    <<Str(<<"S", "e", "x">>), Str(<<"G", "e", "n", "d", "e", "r">>)>>,
    <<Str(<<"A", "g", "e">>), Str(<<"H", "o", "w", " ", "o", "l", "d">>)>>,
    <<Str(<<"C", "o", "l", "u", "m", "n", " ", "E">>), Null, Str(<<"o", "r", "p", "h", "a", "n">>)>>,
    <<Str(<<"C", "o", "l", "u", "m", "n", " ", "F">>), Str(<<"W", "t">>), Num(0)>>,
    <<Str(<<"C", "o", "l", "u", "m", "n", " ", "G">>), Num(50), Str(<<"f", "i", "v", "e">>)>>,
    <<Str(<<"C", "o", "l", "u", "m", "n", " ", "A", "B">>), Str(<<"P", "a", "i", "r">>)>>,
    <<Str(<<"N", "o", "t", "e", "s">>)>>,
    <<Null, Str(<<"x">>)>>,
    <<>> }

InitCodebook ==
    /\ pc = "codebook:start"
    /\ descData \in UNION {[1..n -> DescRows] : n \in 0..MaxDescRows}
    /\ codebookOut = <<>>
    /\ CoreIdle /\ TypeIdle /\ AnalyzeIdle

ExtractCodebook ==
    /\ pc = "codebook:start"
    /\ codebookOut' = extractCodebook(descData)
    /\ pc' = "codebook:done"
    /\ UNCHANGED <<descData, coreVars, typeVars, analyzeVars>>

NextCodebook == ExtractCodebook
SpecCodebook == InitCodebook /\ [][NextCodebook]_vars


\* the cell texts of a row; a cell that is missing, empty, zero or false has none
TextOfFirst(row) == CellText(RowCell(row, 0))
TextOfSecond(row) == CellText(RowCell(row, 1))
TextOfThird(row) == CellText(RowCell(row, 2))
\* a row of at least 2 cells that is no header, names a column letter and has a second cell
IsLetterRow(row) ==
    /\ Len(row) >= 2
    /\ ~IsHeaderRow(TextOfFirst(row), TextOfSecond(row))
    /\ IsColumnLetterRef(TextOfFirst(row))
    /\ TextOfSecond(row) # <<>>
\* a row of at least 2 cells that is no header and reads name, description
IsNameRow(row) ==
    /\ Len(row) >= 2
    /\ ~IsHeaderRow(TextOfFirst(row), TextOfSecond(row))
    /\ ~IsLetterRow(row)
    /\ TextOfFirst(row) # <<>> /\ TextOfSecond(row) # <<>>
    /\ ~startsWith(toLowerCase(TextOfFirst(row)), <<"c", "o", "l", "u", "m", "n">>)
YieldsPair(row) == IsLetterRow(row) \/ IsNameRow(row)
PairName(row) == IF IsLetterRow(row) THEN TextOfSecond(row) ELSE TextOfFirst(row)
\* the third cell as text when the row has one, else the second-cell text
ThirdCellOrName(row) ==
    IF Len(row) >= 3 /\ NonBlank(row[3]) THEN trim(StringOf(row[3])) ELSE TextOfSecond(row)

CodebookIffPair ==
    pc = "codebook:done" =>
        /\ codebookOut.has <=> \E i \in 1..Len(descData) : YieldsPair(descData[i])
        /\ codebookOut.has => DOMAIN codebookOut.map # {}

\* C9: for a grid of at least two rows a codebook is returned exactly when at
\* least one row yields a name/description pair; a grid of fewer than two rows
\* gives the absent result whatever its row holds; the codebook returned is
\* never an empty mapping.
CodebookIffPairInTwoRows ==
    pc = "codebook:done" =>
        /\ Len(descData) >= 2 =>
              (codebookOut.has <=> \E i \in 1..Len(descData) : YieldsPair(descData[i]))
        /\ Len(descData) < 2 => ~codebookOut.has
        /\ codebookOut.has => DOMAIN codebookOut.map # {}

\* a header row and one name/description row give a codebook of one entry
CodebookIffPairInTwoRowsWitness ==
    /\ pc = "codebook:done"
    /\ descData = << <<Str(<<"C", "o", "l", "u", "m", "n">>), Str(<<"V", "a", "r", "i", "a", "b", "l", "e">>), Str(<<"D", "e", "s", "c", "r", "i", "p", "t", "i", "o", "n">>)>>,
                     <<Str(<<"S", "e", "x">>), Str(<<"G", "e", "n", "d", "e", "r">>)>> >>
    /\ codebookOut = [has |-> TRUE, map |-> (<<"S", "e", "x">> :> <<"G", "e", "n", "d", "e", "r">>)]


(***************************************************************************)
(* SpecAnalyze: analyzeExcelStructure on one file, step by step            *)
(***************************************************************************)
\* Sheet names are distinct within a workbook; the grids sheet_to_json returns are
\* rectangular, blank cells null.
SheetNames == {<<"D", "a", "t", "a">>, <<"C", "o", "d", "e", "b", "o", "o", "k">>, <<"L", "e", "g", "e", "n", "d">>}
ChartedParts == [la |-> 3, lb |-> 3, lc |-> 0, bad |-> 0, cat |-> "ref", two |-> FALSE]
SheetGrids == {
    <<>>,
    << <<Str(<<"A", "g", "e">>), Str(<<"S", "e", "x">>)>> >>,
    << <<Str(<<"A", "g", "e">>), Str(<<"S", "e", "x">>)>>, <<Null, Str(<<>>)>>, <<Null, Null>> >>,
    << <<Str(<<"C", "o", "l", "u", "m", "n", " ", "A">>), Str(<<"A", "g", "e">>), Str(<<"A", "g", "e", " ", "i", "n", " ", "y", "e", "a", "r", "s">>)>>,
       <<Str(<<"C", "o", "l", "u", "m", "n", " ", "B">>), Str(<<"S", "e", "x">>), Str(<<"M", "/", "F">>)>> >>,
    << <<Str(<<"X">>), Str(<<"X">>)>>, <<Num(15), Str(<<"a">>)>>, <<Num(25), Str(<<"b">>)>> >>,
    ChartGrid(ChartedParts) }
Workbooks ==
    {w \in UNION {[1..n -> [name : SheetNames, data : SheetGrids]] : n \in 1..MaxSheets} :
        \A i, j \in 1..Len(w) : w[i].name = w[j].name => i = j}
\* a bar chart over columns A and B, a titled line chart over the same columns
\* with axis titles, and a part that names no series
ChartParts == {
    WriteChart(ChartedParts),
    <<Tok("lineChart"), Tok("title"), TokV("a:t", <<"S", "a", "l", "e", "s">>)>>
        \o WriteSeries(<<"U", "n", "i", "t", "s">>, "ref", 1)
        \o <<Tok("catAx"), Tok("title"), TokV("a:t", <<"M", "o", "n", "t", "h">>),
             Tok("valAx"), Tok("title"), TokV("a:t", <<"S", "o", "l", "d">>)>>,
    <<Tok("pieChart")>> }
VisionUsages == {[input_tokens |-> 3, output_tokens |-> 2, total_tokens |-> 5], NoUsage}

\* The file given: a zip container (.xlsx) with its chart parts and images, another
\* format XLSX.read reads (.xls, .csv) that AdmZip cannot open, or bytes on which
\* XLSX.read itself throws.
Containers == {"zip", "other", "corrupt"}

Pending == [status |-> "pending", error |-> "", summary |-> <<>>]

\* XLSX.read throws: nothing in analyzeExcelStructure catches it
ThrowUnreadable ==
    /\ pc = "analyze:start"
    /\ buffer.container = "corrupt"
    /\ result' = [status |-> "error", error |-> "XLSX.read error", summary |-> <<>>]
    /\ pc' = "analyze:failed"
    /\ UNCHANGED <<buffer, workbook, sheetIdx, sheets, codebook, chartXmls, images,
                   sheetDataArray, chartIdx, analyzedCharts, chartUsage, rendered, visionCalls,
                   coreVars, typeVars, codebookVars, threw, visionLog, billed, tasks>>

InitAnalyze ==
    /\ pc = "analyze:start"
    /\ buffer \in [container : Containers,
                   sheets : Workbooks \cup {<<>>},
                   charts : {<<>>} \cup {<<c>> : c \in ChartParts},
                   images : 0..1]
    /\ buffer.container # "zip" => buffer.charts = <<>> /\ buffer.images = 0
    /\ buffer.container = "corrupt" <=> buffer.sheets = <<>>
    /\ workbook = <<>> /\ sheetIdx = 0 /\ sheets = <<>> /\ codebook = <<>>
    /\ chartXmls = <<>> /\ images = 0 /\ sheetDataArray = <<>> /\ chartIdx = 0
    /\ analyzedCharts = <<>> /\ chartUsage = NoUsage /\ rendered = 0 /\ visionCalls = 0
    /\ result = Pending
    /\ threw = {}
    /\ visionLog = <<>>
    /\ billed = <<>>
    /\ tasks = <<>>
    /\ CoreIdle /\ TypeIdle /\ CodebookIdle

\* XLSX.read and the first pass: the description sheets are scanned for a codebook
FindCodebook ==
    /\ pc = "analyze:start"
    /\ buffer.container # "corrupt"
    /\ workbook' = buffer.sheets
    /\ codebook' = FirstPass(buffer.sheets, Len(buffer.sheets))
    /\ sheetIdx' = 1
    /\ pc' = "analyze:sheets"
    /\ UNCHANGED <<buffer, sheets, chartXmls, images, sheetDataArray, chartIdx, analyzedCharts,
                   chartUsage, rendered, visionCalls, result, coreVars, typeVars, codebookVars, threw, visionLog, billed, tasks>>

\* second pass, one sheet: skipped, or summarised
AnalyzeSheet ==
    /\ pc = "analyze:sheets" /\ sheetIdx <= Len(workbook)
    /\ sheets' = IF SkipsSheet(workbook[sheetIdx].data) THEN sheets
                 ELSE Append(sheets, SheetSummary(workbook[sheetIdx]))
    /\ sheetIdx' = sheetIdx + 1
    /\ UNCHANGED <<pc, buffer, workbook, codebook, chartXmls, images, sheetDataArray, chartIdx,
                   analyzedCharts, chartUsage, rendered, visionCalls, result,
                   coreVars, typeVars, codebookVars, threw, visionLog, billed, tasks>>

\* throw new Error('No valid sheets found in workbook')
ThrowNoValidSheets ==
    /\ pc = "analyze:sheets" /\ sheetIdx > Len(workbook)
    /\ NoValidSheets(sheets)
    /\ result' = [status |-> "error", error |-> "No valid sheets found in workbook",
                  summary |-> <<>>]
    /\ pc' = "analyze:failed"
    /\ UNCHANGED <<buffer, workbook, sheetIdx, sheets, codebook, chartXmls, images,
                   sheetDataArray, chartIdx, analyzedCharts, chartUsage, rendered, visionCalls,
                   coreVars, typeVars, codebookVars, threw, visionLog, billed, tasks>>

\* extractFromXlsx, and the grid the charts are resolved against
ExtractFromXlsx ==
    /\ pc = "analyze:sheets" /\ sheetIdx > Len(workbook)
    /\ ~NoValidSheets(sheets)
    /\ LET parts == extractFromXlsx(buffer)
       IN IF parts.thrown
          THEN /\ result' = [status |-> "error", error |-> "unreadable container",
                             summary |-> <<>>]
               /\ pc' = "analyze:failed"
               /\ UNCHANGED <<chartXmls, images, sheetDataArray, chartIdx>>
          ELSE /\ chartXmls' = parts.chartXmls
               /\ images' = parts.images
               /\ sheetDataArray' = FirstDataSheet(workbook)
               /\ chartIdx' = 1
               /\ pc' = "analyze:charts"
               /\ UNCHANGED result
    /\ UNCHANGED <<buffer, workbook, sheetIdx, sheets, codebook, analyzedCharts, chartUsage,
                   rendered, visionCalls, coreVars, typeVars, codebookVars, threw, visionLog, billed, tasks>>

\* result.text or the insights parsed from it: what the vision call wrote
VisionText == <<"vision text">>
\* 'Failed to analyze chart image'
FailedAnalysis == <<"Failed to analyze chart image">>

\* a catch around the whole loop: a throw ends it
AfterCatchOutside(idx, n) == n + 1
\* the catch is inside the loop body: the loop goes on with the next chart part
AfterCatch(idx, n) == idx + 1

\* chart loop, one chart part that is not rendered: no grid, or no chart data
ListChart ==
    /\ pc = "analyze:charts" /\ chartIdx <= Len(chartXmls)
    /\ Len(sheetDataArray) = 0 \/ ~buildChartData(chartXmls[chartIdx], sheetDataArray).ok
    /\ analyzedCharts' = Append(analyzedCharts, parseChartXmlToInfo(chartIdx, chartXmls[chartIdx]))
    /\ chartIdx' = chartIdx + 1
    /\ UNCHANGED <<pc, buffer, workbook, sheetIdx, sheets, codebook, chartXmls, images,
                   sheetDataArray, chartUsage, rendered, visionCalls, result,
                   coreVars, typeVars, codebookVars, threw, visionLog, billed, tasks>>

\* chart loop, one chart part whose rendering throws: the part is dropped
DropChart ==
    /\ pc = "analyze:charts" /\ chartIdx <= Len(chartXmls)
    /\ Len(sheetDataArray) > 0 /\ buildChartData(chartXmls[chartIdx], sheetDataArray).ok
    /\ chartIdx' = AfterCatch(chartIdx, Len(chartXmls))
    /\ threw' = threw \cup {chartIdx}
    /\ UNCHANGED <<pc, buffer, workbook, sheetIdx, sheets, codebook, chartXmls, images,
                   sheetDataArray, analyzedCharts, chartUsage, rendered, visionCalls, result,
                   coreVars, typeVars, codebookVars, visionLog, billed, tasks>>

\* one call of analyzeChartWithVision as the history keeps it
VisionCall(imageFile, ok, usage) == [imageFile |-> imageFile, ok |-> ok, usage |-> usage]

\* chartInfo.analysis = result.text, or the insights parsed from it
DescribedInfo(info) == [info EXCEPT !.analysis = VisionText]

\* a failed vision call rewrites the analysis with the text for embedded images
InfoWithFailedAnalysis(info) == [info EXCEPT !.analysis = FailedAnalysis]
\* the catch of the vision call only logs: the ChartInfo stays as parsed
InfoAfterVisionFailure(info) == info

\* a failed vision call is counted like a call of one prompt token
UsageCountingFailure(total) ==
    AddUsage(total, [input_tokens |-> 1, output_tokens |-> 0, total_tokens |-> 1])
\* the usage is added after the call has returned: a failed call adds nothing
UsageAfterVisionFailure(total) == total

\* chart loop, one chart part rendered and described by the vision call
DescribeChart ==
    /\ pc = "analyze:charts" /\ chartIdx <= Len(chartXmls)
    /\ Len(sheetDataArray) > 0 /\ buildChartData(chartXmls[chartIdx], sheetDataArray).ok
    /\ \E usage \in VisionUsages :
          /\ chartUsage' = AddUsage(chartUsage, usage)
          /\ visionLog' = Append(visionLog, VisionCall(<<"chart", chartIdx>>, TRUE, usage))
    /\ analyzedCharts' = Append(analyzedCharts,
          DescribedInfo(parseChartXmlToInfo(chartIdx, chartXmls[chartIdx])))
    /\ rendered' = rendered + 1
    /\ visionCalls' = visionCalls + 1
    /\ chartIdx' = chartIdx + 1
    /\ UNCHANGED <<pc, buffer, workbook, sheetIdx, sheets, codebook, chartXmls, images,
                   sheetDataArray, result, coreVars, typeVars, codebookVars, threw, billed, tasks>>

\* chart loop, one chart part rendered whose vision call fails: the ChartInfo is kept
KeepUndescribedChart ==
    /\ pc = "analyze:charts" /\ chartIdx <= Len(chartXmls)
    /\ Len(sheetDataArray) > 0 /\ buildChartData(chartXmls[chartIdx], sheetDataArray).ok
    /\ analyzedCharts' = Append(analyzedCharts,
          InfoAfterVisionFailure(parseChartXmlToInfo(chartIdx, chartXmls[chartIdx])))
    /\ chartUsage' = UsageAfterVisionFailure(chartUsage)
    /\ visionLog' = Append(visionLog, VisionCall(<<"chart", chartIdx>>, FALSE, NoUsage))
    /\ rendered' = rendered + 1
    /\ visionCalls' = visionCalls + 1
    /\ chartIdx' = chartIdx + 1
    /\ UNCHANGED <<pc, buffer, workbook, sheetIdx, sheets, codebook, chartXmls, images,
                   sheetDataArray, result, coreVars, typeVars, codebookVars, threw, billed, tasks>>

\* analyzeChartImages' totalUsage over the calls from n on: a call that failed
\* left the loop body before the usage was added
RECURSIVE TotalUsage(_, _, _)
TotalUsage(calls, n, total) ==
    IF n > Len(calls) THEN total
    ELSE TotalUsage(calls, n + 1,
                    IF calls[n].ok THEN AddUsage(total, calls[n].usage)
                    ELSE UsageAfterVisionFailure(total))

\* what the vision call for an embedded image can come to
ImageOutcomes ==
    {[ok |-> TRUE, usage |-> u] : u \in VisionUsages} \cup {[ok |-> FALSE, usage |-> NoUsage]}

\* the ChartInfo analyzeChartImages gives for image i
ImageInfo(i, described) ==
    [imageFile |-> <<"image", i>>,
     chartType |-> IF described THEN "by vision" ELSE "",
     title |-> None, xAxis |-> None, yAxis |-> None, dataRange |-> <<>>, series |-> <<>>,
     analysis |-> IF described THEN VisionText ELSE FailedAnalysis]

\* analyzeChartImages over the embedded images, each call succeeding or failing
AnalyzeImages ==
    /\ pc = "analyze:charts" /\ chartIdx > Len(chartXmls)
    /\ \E calls \in [1..images -> ImageOutcomes] :
          /\ analyzedCharts' = analyzedCharts \o [i \in 1..images |-> ImageInfo(i, calls[i].ok)]
          /\ chartUsage' = AddUsage(chartUsage, TotalUsage(calls, 1, NoUsage))
          /\ visionLog' = visionLog \o [i \in 1..images |->
                VisionCall(<<"image", i>>, calls[i].ok, calls[i].usage)]
    /\ visionCalls' = visionCalls + images
    /\ pc' = "analyze:return"
    /\ UNCHANGED <<buffer, workbook, sheetIdx, sheets, codebook, chartXmls, images,
                   sheetDataArray, chartIdx, rendered, result, coreVars, typeVars, codebookVars, threw, billed, tasks>>

\* if (chartUsage.total_tokens > 0) result.chartAnalysisUsage = chartUsage
UsageIfAny(usage) ==
    [has |-> usage.total_tokens > 0,
     usage |-> IF usage.total_tokens > 0 THEN usage ELSE NoUsage]

\* workbook.chartAnalysisUsage || { input_tokens: 0, output_tokens: 0, total_tokens: 0 }
UsageOrZeros(reported) == IF reported.has THEN reported.usage ELSE NoUsage

\* if (usage.total_tokens > 0) { calculateCost, deductBalance, logUsage }
ChargeIfUsed(usage) == IF usage.total_tokens > 0 THEN <<usage>> ELSE <<>>

\* the summary is put together; codebook, charts and usage are left out when empty
ReturnSummary ==
    /\ pc = "analyze:return"
    /\ result' = [status |-> "ok", error |-> "",
                  summary |-> [sheets |-> sheets, codebook |-> codebook,
                               charts |-> analyzedCharts,
                               chartAnalysisUsage |-> UsageIfAny(chartUsage)]]
    /\ pc' = "analyze:done"
    /\ UNCHANGED <<buffer, workbook, sheetIdx, sheets, codebook, chartXmls, images,
                   sheetDataArray, chartIdx, analyzedCharts, chartUsage, rendered, visionCalls,
                   coreVars, typeVars, codebookVars, threw, visionLog, billed, tasks>>

\* POST /analyze after analyzeExcelStructure returned: the user is charged for
\* the usage reported, if any, and the answer is sent
RespondAnalysis ==
    /\ pc = "analyze:done"
    /\ billed' = billed \o ChargeIfUsed(UsageOrZeros(result.summary.chartAnalysisUsage))
    /\ pc' = "route:done"
    /\ UNCHANGED <<buffer, workbook, sheetIdx, sheets, codebook, chartXmls, images,
                   sheetDataArray, chartIdx, analyzedCharts, chartUsage, rendered, visionCalls,
                   result, coreVars, typeVars, codebookVars, threw, visionLog, tasks>>

\* POST /analyze after analyzeExcelStructure threw: status 400 with the message,
\* nothing is charged
RespondError ==
    /\ pc = "analyze:failed"
    /\ pc' = "route:failed"
    /\ UNCHANGED <<buffer, workbook, sheetIdx, sheets, codebook, chartXmls, images,
                   sheetDataArray, chartIdx, analyzedCharts, chartUsage, rendered, visionCalls,
                   result, coreVars, typeVars, codebookVars, threw, visionLog, billed, tasks>>

NextAnalyze ==
    \/ ThrowUnreadable
    \/ FindCodebook \/ AnalyzeSheet \/ ThrowNoValidSheets \/ ExtractFromXlsx
    \/ ListChart \/ DropChart \/ DescribeChart \/ KeepUndescribedChart
    \/ AnalyzeImages \/ ReturnSummary \/ RespondAnalysis \/ RespondError
SpecAnalyze == InitAnalyze /\ [][NextAnalyze]_vars

\* the sheets the second pass has no use for: fewer than 2 rows, or data rows
\* without a single non-blank cell
IsUnusable(data) ==
    \/ Len(data) < 2
    \/ \A r \in 2..Len(data) : \A i \in 1..Len(data[r]) : ~NonBlank(data[r][i])
\* a workbook was read, and every sheet of it is one of these
AllSheetsUnusable ==
    /\ buffer.container # "corrupt"
    /\ \A i \in 1..Len(buffer.sheets) : IsUnusable(buffer.sheets[i].data)

\* C10: when every sheet of the workbook is skipped (fewer than 2 rows, or no
\* non-empty data column), the call fails with the error 'No valid sheets found
\* in workbook': it never returns a summary, and no chart is listed, rendered or
\* described before the failure.
NoValidSheetsIsFatal ==
    AllSheetsUnusable =>
        /\ pc \in {"analyze:start", "analyze:sheets", "analyze:failed", "route:failed"}
        /\ result.status # "ok" /\ result.summary = <<>>
        /\ rendered = 0 /\ visionCalls = 0 /\ analyzedCharts = <<>> /\ chartXmls = <<>>
        /\ sheets = <<>> /\ billed = <<>>
        /\ pc \in {"analyze:failed", "route:failed"} =>
              result = [status |-> "error", error |-> "No valid sheets found in workbook",
                        summary |-> <<>>]

\* a workbook of a one-row sheet and a sheet of blank data rows, with a chart
\* part and an image, has failed
NoValidSheetsIsFatalWitness ==
    /\ AllSheetsUnusable
    /\ pc = "analyze:failed" /\ result.status = "error"
    /\ Len(buffer.sheets) = 2 /\ Len(buffer.charts) = 1 /\ buffer.images = 1
    /\ \E i \in 1..2 : Len(buffer.sheets[i].data) > 2
    /\ \E i \in 1..2 : Len(buffer.sheets[i].data) = 1


ChartWorkbooks ==
    { << [name |-> <<"D", "a", "t", "a">>, data |-> ChartGrid(ChartedParts)] >>,
      << [name |-> <<"D", "a", "t", "a">>,
          data |-> << <<Str(<<"A", "g", "e">>), Str(<<"S", "e", "x">>)>>, <<Num(210), Str(<<"F">>)>> >>] >> }

InitCharts ==
    /\ pc = "analyze:start"
    /\ buffer \in [container : {"zip"},
                   sheets : ChartWorkbooks,
                   charts : UNION {[1..n -> ChartParts] : n \in 0..MaxCharts},
                   images : 0..1]
    /\ workbook = <<>> /\ sheetIdx = 0 /\ sheets = <<>> /\ codebook = <<>>
    /\ chartXmls = <<>> /\ images = 0 /\ sheetDataArray = <<>> /\ chartIdx = 0
    /\ analyzedCharts = <<>> /\ chartUsage = NoUsage /\ rendered = 0 /\ visionCalls = 0
    /\ result = Pending
    /\ threw = {} /\ visionLog = <<>> /\ billed = <<>> /\ tasks = <<>>
    /\ CoreIdle /\ TypeIdle /\ CodebookIdle

NextCharts ==
    \/ FindCodebook \/ AnalyzeSheet \/ ExtractFromXlsx
    \/ ListChart \/ DropChart \/ DescribeChart \/ KeepUndescribedChart
    \/ AnalyzeImages \/ ReturnSummary \/ RespondAnalysis
SpecCharts == InitCharts /\ [][NextCharts]_vars

\* the ChartInfo of chart part i is among these
HasChart(charts, i) == \E j \in 1..Len(charts) : charts[j].imageFile = <<"chart", i>>

\* C12: a chart part whose processing throws is dropped and the loop goes on:
\* every chart part the loop has passed that did not throw has its ChartInfo
\* collected, the loop stands at the next part or at its end, and the call returns
\* a successful summary holding the ChartInfo of every part that did not throw.
ChartLoopSurvivesThrow ==
    /\ pc = "analyze:charts" =>
          /\ \A i \in 1..(chartIdx - 1) : i \notin threw => HasChart(analyzedCharts, i)
          /\ \A i \in threw : i < chartIdx /\ chartIdx <= Len(chartXmls) + 1
    /\ threw # {} => pc # "analyze:failed" /\ result.status # "error"
    /\ pc = "analyze:done" =>
          /\ result.status = "ok"
          /\ \A i \in 1..Len(buffer.charts) :
                i \notin threw => HasChart(result.summary.charts, i)

\* the first of two chart parts threw, the second is in the summary returned
ChartLoopSurvivesThrowWitness ==
    /\ pc = "analyze:done" /\ result.status = "ok"
    /\ Len(buffer.charts) = 2 /\ threw = {1}
    /\ HasChart(result.summary.charts, 2) /\ ~HasChart(result.summary.charts, 1)


\* the ChartInfo with this imageFile, if it is among these
InfosOf(charts, imageFile) ==
    {charts[j] : j \in {j \in 1..Len(charts) : charts[j].imageFile = imageFile}}

\* the parts whose vision call failed
FailedVision == {visionLog[k].imageFile : k \in {k \in 1..Len(visionLog) : ~visionLog[k].ok}}

\* type, title, axes and series are those parseChartXmlToInfo reads from the part
StructureAsParsed(info, parsed) ==
    /\ info.chartType = parsed.chartType /\ info.title = parsed.title
    /\ info.xAxis = parsed.xAxis /\ info.yAxis = parsed.yAxis
    /\ info.series = parsed.series

RECURSIVE SucceededUsage(_, _)
SucceededUsage(log, n) ==
    IF n > Len(log) THEN NoUsage
    ELSE IF log[n].ok THEN AddUsage(log[n].usage, SucceededUsage(log, n + 1))
    ELSE SucceededUsage(log, n + 1)

\* C14: a vision call that failed adds nothing to the usage counters: after any
\* sequence of successful and failed calls the counters, and the usage the
\* summary reports, are the sum of the usage of the calls that succeeded; the
\* route charges the user once for that sum when its total is above zero and not
\* at all otherwise.
UsageIsSumOfSucceededCalls ==
    /\ chartUsage = SucceededUsage(visionLog, 1)
    /\ pc \in {"analyze:done", "route:done"} =>
          UsageOrZeros(result.summary.chartAnalysisUsage) = SucceededUsage(visionLog, 1)
    /\ pc # "route:done" => billed = <<>>
    /\ pc = "route:done" =>
          billed = IF SucceededUsage(visionLog, 1).total_tokens > 0
                   THEN <<SucceededUsage(visionLog, 1)>> ELSE <<>>

\* calls failed and calls succeeded, and the user was charged for the latter
UsageIsSumOfSucceededCallsWitness ==
    /\ pc = "route:done"
    /\ \E k \in 1..Len(visionLog) : ~visionLog[k].ok /\ visionLog[k].imageFile[1] = "chart"
    /\ \E k \in 1..Len(visionLog) : ~visionLog[k].ok /\ visionLog[k].imageFile[1] = "image"
    /\ \E k \in 1..Len(visionLog) : visionLog[k].ok /\ visionLog[k].usage.total_tokens > 0
    /\ billed # <<>>


\* the grid of the sheet of this name in the file given
GridOf(name) ==
    CHOOSE data \in {buffer.sheets[i].data : i \in 1..Len(buffer.sheets)} :
        \E i \in 1..Len(buffer.sheets) :
            buffer.sheets[i].name = name /\ buffer.sheets[i].data = data

\* the zero-based indices of the columns of this grid whose header is this text
ColumnsHeaded(data, header) ==
    {idx \in nonEmptyColumnIndices(data) : Headers(data)[idx + 1] = header}

\* C15: in every SheetSummary each key of stats is the header of a column
\* classified numeric, no column of another type has a stats entry under its
\* header, two columns of one header text included, and the entry is
\* calculateStats over all the data rows of the numeric column.
StatsOnlyUnderNumericHeaders ==
    \A k \in 1..Len(sheets) :
        With(sheets[k], LAMBDA s :
            /\ \A key \in DOMAIN s.stats :
                  \E letter \in DOMAIN s.columns :
                      s.columns[letter].header = key /\ s.columns[letter].type = "numeric"
            /\ \A letter \in DOMAIN s.columns :
                  s.columns[letter].type # "numeric" =>
                      s.columns[letter].header \notin DOMAIN s.stats
            /\ \A key \in DOMAIN s.stats :
                  \E idx \in ColumnsHeaded(GridOf(s.name), key) :
                      s.stats[key] = calculateStats(ColumnValues(GridOf(s.name), idx)))


(***************************************************************************)
(* SpecParallel: the body of the chart loop of analyzeExcelStructure run as *)
(* one task per chart part, the tasks interleaved at their awaits           *)
(***************************************************************************)
\* what a task leaves alone
loopFixed == <<buffer, workbook, sheetIdx, sheets, codebook, chartXmls, images, sheetDataArray,
               chartIdx, result, billed, coreVars, typeVars, codebookVars>>

\* a task: where it stands, its chartInfo, the counters as it last saw them
\* before its await, and how its processing came out
Task(at, info, seen, kind, usage) ==
    [at |-> at, info |-> info, seen |-> seen, outcome |-> [kind |-> kind, usage |-> usage]]

TaskAt(i, at) == i \in DOMAIN tasks /\ tasks[i].at = at

\* the counters written back from what the task read before the await
AddToSeen(current, seen, usage) == AddUsage(seen, usage)
\* chartUsage.x += result.usage.x, after the await: read and written in one step
AddAfterAwait(current, seen, usage) == AddUsage(current, usage)

InitParallel == InitCharts

\* no grid to resolve against: the chartInfo is listed as parsed
ListWithoutGrid ==
    /\ pc = "analyze:charts" /\ chartIdx = 1 /\ Len(sheetDataArray) = 0
    /\ \E i \in 1..Len(chartXmls) :
          /\ i \notin DOMAIN tasks
          /\ tasks' = Put(tasks, i, Task("done", parseChartXmlToInfo(i, chartXmls[i]),
                                         NoUsage, "listed", NoUsage))
          /\ analyzedCharts' = Append(analyzedCharts, parseChartXmlToInfo(i, chartXmls[i]))
    /\ UNCHANGED <<pc, loopFixed, chartUsage, rendered, visionCalls, threw, visionLog>>

\* a task parses its part and awaits renderChartFromXml
StartChart ==
    /\ pc = "analyze:charts" /\ chartIdx = 1 /\ Len(sheetDataArray) > 0
    /\ \E i \in 1..Len(chartXmls) :
          /\ i \notin DOMAIN tasks
          /\ tasks' = Put(tasks, i, Task("render", parseChartXmlToInfo(i, chartXmls[i]),
                                         NoUsage, "", NoUsage))
    /\ UNCHANGED <<pc, loopFixed, analyzedCharts, chartUsage, rendered, visionCalls, threw,
                   visionLog>>

\* renderChartFromXml returned null: the chartInfo is listed as parsed
RenderNull ==
    /\ pc = "analyze:charts"
    /\ \E i \in 1..Len(chartXmls) :
          /\ TaskAt(i, "render") /\ ~buildChartData(chartXmls[i], sheetDataArray).ok
          /\ tasks' = Put(tasks, i, Task("done", tasks[i].info, NoUsage, "listed", NoUsage))
          /\ analyzedCharts' = Append(analyzedCharts, tasks[i].info)
    /\ UNCHANGED <<pc, loopFixed, chartUsage, rendered, visionCalls, threw, visionLog>>

\* the rendering threw: the task ends in the catch of the loop body
RenderThrows ==
    /\ pc = "analyze:charts"
    /\ \E i \in 1..Len(chartXmls) :
          /\ TaskAt(i, "render") /\ buildChartData(chartXmls[i], sheetDataArray).ok
          /\ tasks' = Put(tasks, i, Task("done", tasks[i].info, NoUsage, "threw", NoUsage))
          /\ threw' = threw \cup {i}
    /\ UNCHANGED <<pc, loopFixed, analyzedCharts, chartUsage, rendered, visionCalls, visionLog>>

\* the image is rendered and saved; the task awaits the vision call
RenderDone ==
    /\ pc = "analyze:charts"
    /\ \E i \in 1..Len(chartXmls) :
          /\ TaskAt(i, "render") /\ buildChartData(chartXmls[i], sheetDataArray).ok
          /\ tasks' = Put(tasks, i, Task("vision", tasks[i].info, chartUsage, "", NoUsage))
    /\ rendered' = rendered + 1
    /\ UNCHANGED <<pc, loopFixed, analyzedCharts, chartUsage, visionCalls, threw, visionLog>>

\* the vision call returned: analysis and counters are written, the chartInfo pushed
VisionDone ==
    /\ pc = "analyze:charts"
    /\ \E i \in 1..Len(chartXmls), usage \in VisionUsages :
          /\ TaskAt(i, "vision")
          /\ chartUsage' = AddAfterAwait(chartUsage, tasks[i].seen, usage)
          /\ analyzedCharts' = Append(analyzedCharts, DescribedInfo(tasks[i].info))
          /\ visionLog' = Append(visionLog, VisionCall(<<"chart", i>>, TRUE, usage))
          /\ tasks' = Put(tasks, i, Task("done", DescribedInfo(tasks[i].info), tasks[i].seen,
                                         "described", usage))
    /\ visionCalls' = visionCalls + 1
    /\ UNCHANGED <<pc, loopFixed, rendered, threw>>

\* the vision call threw: the chartInfo is pushed as parsed
VisionFails ==
    /\ pc = "analyze:charts"
    /\ \E i \in 1..Len(chartXmls) :
          /\ TaskAt(i, "vision")
          /\ chartUsage' = UsageAfterVisionFailure(chartUsage)
          /\ analyzedCharts' = Append(analyzedCharts, InfoAfterVisionFailure(tasks[i].info))
          /\ visionLog' = Append(visionLog, VisionCall(<<"chart", i>>, FALSE, NoUsage))
          /\ tasks' = Put(tasks, i, Task("done", tasks[i].info, tasks[i].seen,
                                         "undescribed", NoUsage))
    /\ visionCalls' = visionCalls + 1
    /\ UNCHANGED <<pc, loopFixed, rendered, threw>>

\* every task has ended: the embedded images are next
JoinCharts ==
    /\ pc = "analyze:charts" /\ chartIdx = 1
    /\ \A i \in 1..Len(chartXmls) : TaskAt(i, "done")
    /\ chartIdx' = Len(chartXmls) + 1
    /\ UNCHANGED <<pc, buffer, workbook, sheetIdx, sheets, codebook, chartXmls, images,
                   sheetDataArray, analyzedCharts, chartUsage, rendered, visionCalls, result,
                   coreVars, typeVars, codebookVars, threw, visionLog, billed, tasks>>

NextParallel ==
    \/ FindCodebook \/ AnalyzeSheet \/ ExtractFromXlsx
    \/ ListWithoutGrid \/ StartChart \/ RenderNull \/ RenderThrows \/ RenderDone
    \/ VisionDone \/ VisionFails \/ JoinCharts
    \/ AnalyzeImages \/ ReturnSummary \/ RespondAnalysis
SpecParallel == InitParallel /\ [][NextParallel]_vars

\* the chart loop of analyzeExcelStructure over the parts 1..n one at a time,
\* every part's rendering and vision call coming out as given
RECURSIVE OneAtATime(_, _, _, _)
OneAtATime(xmls, grids, outcomes, n) ==
    IF n = 0 THEN [charts |-> <<>>, usage |-> NoUsage]
    ELSE With(OneAtATime(xmls, grids, outcomes, n - 1), LAMBDA before :
         With(parseChartXmlToInfo(n, xmls[n]), LAMBDA parsed :
            IF Len(grids) = 0 \/ ~buildChartData(xmls[n], grids).ok
            THEN [charts |-> Append(before.charts, parsed), usage |-> before.usage]
            ELSE IF outcomes[n].kind = "threw" THEN before
            ELSE IF outcomes[n].kind = "described"
            THEN [charts |-> Append(before.charts, DescribedInfo(parsed)),
                  usage |-> AddUsage(before.usage, outcomes[n].usage)]
            ELSE [charts |-> Append(before.charts, InfoAfterVisionFailure(parsed)),
                  usage |-> UsageAfterVisionFailure(before.usage)]))

\* the chart tasks have all ended and the images are not yet analysed
Joined == pc = "analyze:charts" /\ chartIdx > Len(chartXmls)

\* C16: the chart parts processed in any order and interleaved at their awaits
\* give, for every part, the ChartInfo that processing the parts one at a time
\* gives with the same outcomes of rendering and vision call, and the same
\* usage totals; a task's chartInfo is never touched by another task.
ParallelMatchesOneAtATime ==
    /\ \A i \in DOMAIN tasks :
          tasks[i].at \in {"render", "vision"} =>
              tasks[i].info = parseChartXmlToInfo(i, buffer.charts[i])
    /\ Joined =>
          With(OneAtATime(chartXmls, sheetDataArray,
                          [i \in 1..Len(chartXmls) |-> tasks[i].outcome], Len(chartXmls)),
               LAMBDA alone :
                  /\ Len(analyzedCharts) = Len(alone.charts)
                  /\ \A i \in 1..Len(chartXmls) :
                        InfosOf(analyzedCharts, <<"chart", i>>)
                            = InfosOf(alone.charts, <<"chart", i>>)
                  /\ chartUsage = alone.usage)

\* two tasks that were both described, the second part's ChartInfo pushed first
ParallelMatchesOneAtATimeWitness ==
    /\ Joined /\ Len(chartXmls) = 2 /\ Len(analyzedCharts) = 2
    /\ analyzedCharts[1].imageFile = <<"chart", 2>>
    /\ analyzedCharts[2].imageFile = <<"chart", 1>>
    /\ tasks[1].outcome.kind = "described" /\ tasks[2].outcome.kind = "described"
    /\ tasks[1].seen = tasks[2].seen
    /\ chartUsage.total_tokens = 10


(***************************************************************************)
(* SpecMix: detectColumnType on columns that mix the kinds of value         *)
(***************************************************************************)
MaxMix == 5

\* the values a mixed column is written from
MixPool ==
    <<Bool(TRUE), Str(<<"T", "r", "u", "e">>), Str(<<"F", "A", "L", "S", "E">>), Num(15), Str(<<"1", "2">>),
      Str(<<"2", "0", "2", "4", "-", "0", "1", "-", "1", "5">>), Str(<<"0", "1", "/", "1", "5", "/", "2", "0", "2", "4">>), Str(<<"0", "1", "-", "1", "5", "-", "2", "0", "2", "4">>), Str(<<"1", "/", "5", "/", "2", "4">>),
      Str(<<"J", "a", "n", " ", "5">>), DateVal(1), Str(<<"a", "b", "c">>), Null, Str(<<>>)>>

\* the non-decreasing sequences of n positions of the pool: one per choice of values
RECURSIVE Mixes(_)
Mixes(n) ==
    IF n = 0 THEN {<<>>}
    ELSE UNION {{Append(m, k) : k \in (IF m = <<>> THEN 1 ELSE m[Len(m)])..Len(MixPool)} :
                   m \in Mixes(n - 1)}

InitMix ==
    /\ pc = "type:start"
    /\ typeParts \in UNION {Mixes(n) : n \in 0..MaxMix}
    /\ allValues = [i \in 1..Len(typeParts) |-> MixPool[typeParts[i]]]
    /\ sampleValues = <<>> /\ colType = <<>>
    /\ CoreIdle /\ CodebookIdle /\ AnalyzeIdle

NextMix == ClassifyColumn
SpecMix == InitMix /\ [][NextMix]_vars


\* the non-blank values of the sample, and the categories they are counted in
SampleValuesCounted == SelectSeq(Slice(allValues, SAMPLE_SIZE), NonBlank)
SampleCategories ==
    With(SampleValuesCounted, LAMBDA counted :
        [i \in 1..Len(counted) |-> ValueCategory(counted[i])])
Categories == {"boolean", "date", "text", "numeric"}
ReachingCategories(cats) ==
    {c \in Categories : ReachesThreshold(CountOf(cats, c), Len(cats))}

\* the type a category decides
DecidedBy(category, type) ==
    IF category = "numeric" THEN type \in {"numeric", "categorical"} ELSE type = category

\* C17: the four counts partition the non-blank sample, so at most one category
\* reaches 80% of it; the category that does decides the type, whatever the
\* order of the tests (numeric giving numeric or categorical); a sample without
\* a non-blank value, or in which no category reaches 80%, is classified text.
ThresholdDecidesType ==
    pc = "type:done" =>
        With(SampleCategories, LAMBDA cats :
        With(ReachingCategories(cats), LAMBDA reaching :
            /\ CountOf(cats, "boolean") + CountOf(cats, "date") + CountOf(cats, "text")
                  + CountOf(cats, "numeric") = Len(cats)
            /\ Len(cats) > 0 =>
                  /\ Cardinality(reaching) <= 1
                  /\ \A c \in reaching : DecidedBy(c, colType.type)
            /\ (Len(cats) = 0 \/ reaching = {}) => colType.type = "text"))

\* four of five values are dates and the type is date; and three of four are
\* not enough
ThresholdDecidesTypeWitness ==
    /\ pc = "type:done"
    /\ Len(SampleCategories) = 5
    /\ CountOf(SampleCategories, "date") = 4 /\ CountOf(SampleCategories, "boolean") = 1
    /\ colType.type = "date"

\* the strings C18 calls date-like: the five forms isDateString tests
IsDateLikeString(val) == val.k = "string" /\ isDateString(val.s)

\* C18: a sample in which at least 80% of the non-blank values are strings in
\* one of the date forms (ISO, MM/DD/YYYY, MM-DD-YYYY, short M/D/YY, month name
\* first) is classified date.
DateLikeStringsGiveDate ==
    (/\ pc = "type:done"
     /\ Len(SampleValuesCounted) > 0
     /\ ReachesThreshold(
            Cardinality({i \in 1..Len(SampleValuesCounted) :
                            IsDateLikeString(SampleValuesCounted[i])}),
            Len(SampleValuesCounted)))
    => colType.type = "date"

\* the values C19 calls boolean-like: a boolean, or true / false in any letter case
IsBooleanLike(val) ==
    \/ val.k = "boolean"
    \/ val.k = "string" /\ toLowerCase(val.s) \in {<<"t", "r", "u", "e">>, <<"f", "a", "l", "s", "e">>}

\* C19: a sample in which at least 80% of the non-blank values are booleans or
\* the strings true / false in any letter case is classified boolean.
BooleanLikeGiveBoolean ==
    (/\ pc = "type:done"
     /\ Len(SampleValuesCounted) > 0
     /\ ReachesThreshold(
            Cardinality({i \in 1..Len(SampleValuesCounted) :
                            IsBooleanLike(SampleValuesCounted[i])}),
            Len(SampleValuesCounted)))
    => colType.type = "boolean"


\* C20: whatever the shape of the range (single cell, part of a column, part of
\* a row, rectangle), the values extractDataFromSheet returns hold no null, no
\* undefined and no empty string.
ExtractOmitsBlanks ==
    pc = "resolve:done" => \A i \in 1..Len(values) : NonBlank(values[i])


\* the cells of the rectangle the reference was written for (zero-based <<col, row>>)
RangeRectangle ==
    IF rangeParts.shape = "cell" THEN {<<rangeParts.c1, rangeParts.r1 - 1>>}
    ELSE (rangeParts.c1 .. rangeParts.c2) \X ((rangeParts.r1 - 1) .. (rangeParts.r2 - 1))
\* those of them the grid has
ExistingInRange == {p \in RangeRectangle : At(sheetData, p[2], p[1]) # Undefined}

\* C21: extractDataFromSheet never raises; a reference whose range cannot be
\* parsed gives the empty sequence, and a range that lies partly or wholly
\* outside the grid (past the last row or column, over a short row, corners
\* reversed) gives only values of cells the grid has inside the range.
ExtractNeverRaises ==
    pc = "resolve:done" =>
        /\ ~raised
        /\ rangeParts.shape = "bad" => values = <<>>
        /\ Len(values) <= Cardinality(ExistingInRange)
        /\ \A i \in 1..Len(values) :
              \E p \in ExistingInRange : values[i] = At(sheetData, p[2], p[1])

\* a row range below the last row of the grid gave nothing, without raising
ExtractNeverRaisesWitness ==
    /\ pc = "resolve:done" /\ ~raised
    /\ rangeParts.shape = "range" /\ rangeParts.r1 = rangeParts.r2
    /\ rangeParts.c1 < rangeParts.c2
    /\ rangeParts.r1 > Len(sheetData)
    /\ values = <<>>


(***************************************************************************)
(* SpecSheetName: one range resolved bare and behind sheet qualifiers      *)
(***************************************************************************)
\* no qualifier, a plain name, a quoted name with a blank, and the quoted form
\* of the sheet name a'! (the apostrophe doubled, as Excel writes it)
QualifierPrefixes ==
    SheetPrefixes \cup {<<"'", "a", "'", "'", "!", "'", "!">>}

InitSheetName ==
    /\ pc = "resolve:start"
    /\ sheetData \in Grids
    /\ rangeParts \in [shape : {"cell", "range"}, style : {"plain", "abs"},
                       prefix : QualifierPrefixes,
                       c1 : {0, 1}, r1 : {1, 2},
                       c2 : 0..MaxGridCols, r2 : 1..(MaxGridRows + 1)]
    /\ rangeParts.shape # "range" => rangeParts.c2 = 0 /\ rangeParts.r2 = 1
    /\ reference = rangeParts.prefix \o WriteRange(rangeParts, rangeParts.style)
    /\ values = <<>> /\ raised = FALSE
    /\ rangeText = <<>> /\ rangeOut = NoRange /\ plainOut = NoRange
    /\ ColIdle /\ ChartIdle
    /\ RestIdle

NextSheetName == Extract
SpecSheetName == InitSheetName /\ [][NextSheetName]_vars

\* C22: the sheet qualifier of a reference does not count: behind any sheet
\* name, plain or quoted, the reference gives the values the bare range gives
\* on the same grid.
QualifierIsIgnored ==
    pc = "resolve:done" =>
        values = extractDataFromSheet(sheetData, WriteRange(rangeParts, rangeParts.style))


\* the seven ChartData types in the order of their priority
TypePriority == <<"bar", "line", "pie", "doughnut", "scatter", "area", "radar">>
\* the chart elements that stand for a type, 3-D variants included
TagsOfType(type) ==
    IF type = "bar" THEN {"barChart", "bar3DChart"}
    ELSE IF type = "line" THEN {"lineChart", "line3DChart"}
    ELSE IF type = "pie" THEN {"pieChart", "pie3DChart"}
    ELSE IF type = "area" THEN {"areaChart", "area3DChart"}
    ELSE {type \o "Chart"}
\* the places in the priority order of the types whose element the XML holds
PresentRanks ==
    {k \in 1..Len(TypePriority) :
        TagsOfType(TypePriority[k]) \cap {chartParts.t1, chartParts.t2} # {}}

\* C23: the type parseChartXml detects is that of the known chart element of
\* highest priority present (bar, line, pie, doughnut, scatter, area, radar, with
\* their 3-D variants), wherever it stands in the XML, and bar when there is
\* none: it is always one of the seven types.
TypeByPriority ==
    pc = "xml:done" =>
        /\ parsedInfo.chartType \in {TypePriority[k] : k \in 1..Len(TypePriority)}
        /\ PresentRanks = {} => parsedInfo.chartType = "bar"
        /\ PresentRanks # {} =>
              parsedInfo.chartType = TypePriority[SetMin(PresentRanks)]

\* a radar element followed by a 3-D line element is parsed as a line chart
TypeByPriorityWitness ==
    /\ pc = "xml:done"
    /\ chartParts.t1 = "radarChart" /\ chartParts.t2 = "line3DChart"
    /\ parsedInfo.chartType = "line"


(***************************************************************************)
(* SpecTitle: parseChartXml on charts with and without titles and names    *)
(***************************************************************************)
\* a series block with or without a name and with or without a value reference
WriteOptionalSeries(name, hasRef, col) ==
    <<Tok("ser")>>
    \o (IF name = <<>> THEN <<>> ELSE <<Tok("tx"), TokV("v", name)>>)
    \o (IF hasRef THEN <<Tok("val"), TokV("f", ColumnRef(col))>> ELSE <<>>)
    \o <<Tok("/ser")>>

\* a chart title, if any, two series, and a category axis with or without a title
WriteTitled(p) ==
    <<Tok("barChart")>>
    \o (IF p.title THEN <<Tok("title"), TokV("a:t", <<"S", "a", "l", "e", "s">>)>> ELSE <<>>)
    \o WriteOptionalSeries(p.n1, p.v1, 1)
    \o WriteOptionalSeries(p.n2, p.v2, 2)
    \o <<Tok("catAx")>>
    \o (IF p.axis THEN <<Tok("title"), TokV("a:t", <<"M", "o", "n", "t", "h">>)>> ELSE <<>>)

InitTitle ==
    /\ pc = "xml:start"
    /\ chartParts \in [title : BOOLEAN, axis : BOOLEAN,
                       n1 : {<<>>, <<"N", "o", "r", "t", "h">>}, v1 : BOOLEAN,
                       n2 : {<<>>, <<"S", "o", "u", "t", "h">>}, v2 : BOOLEAN]
    /\ chartXml = WriteTitled(chartParts)
    /\ parsedInfo = <<>> /\ chartData = <<>> /\ chartInfo = <<>>
    /\ ColIdle /\ RangeIdle /\ ResolveIdle /\ sheetData = <<>>
    /\ RestIdle

NextTitle == ParseXml
SpecTitle == InitTitle /\ [][NextTitle]_vars

\* the names of the series that have a name and a value reference, in order
KeptSeriesNames ==
    (IF chartParts.v1 /\ chartParts.n1 # <<>> THEN <<chartParts.n1>> ELSE <<>>)
    \o (IF chartParts.v2 /\ chartParts.n2 # <<>> THEN <<chartParts.n2>> ELSE <<>>)

\* C24: when the chart has no chart-level title and a series has a name, the
\* parsed title is the name of the first series that has one, also when a
\* series before it has no name or was dropped for lack of a value reference.
FallbackTitleIsFirstName ==
    (pc = "xml:done" /\ ~chartParts.title /\ KeptSeriesNames # <<>>)
    => parsedInfo.title = Some(KeptSeriesNames[1])


\* the labels of the series written whose column holds a number, in order
SeriesWithNumbers ==
    (IF {r \in 1..chartParts.lb : r # chartParts.bad} # {} THEN << <<"B">> >> ELSE <<>>)
    \o (IF chartParts.two /\ chartParts.lc > 0 THEN << <<"C">> >> ELSE <<>>)

\* C25: buildChartData returns null, and raises nothing, exactly when no series
\* resolves to a number; otherwise the datasets returned are the series that
\* resolve to at least one number, in the order of the XML, none of them empty.
DatasetsAreSeriesWithNumbers ==
    pc = "chart:done" =>
        /\ chartData.ok <=> SeriesWithNumbers # <<>>
        /\ chartData.ok =>
              /\ [i \in 1..Len(chartData.datasets) |-> chartData.datasets[i].label]
                    = SeriesWithNumbers
              /\ \A i \in 1..Len(chartData.datasets) : Len(chartData.datasets[i].data) > 0

\* of two series the first resolves to no number: the chart holds the second alone
DatasetsAreSeriesWithNumbersWitness ==
    /\ pc = "chart:done" /\ chartData.ok
    /\ chartParts.two /\ chartParts.lb = 0 /\ chartParts.lc = 2
    /\ Len(chartData.datasets) = 1 /\ chartData.datasets[1].label = <<"C">>
    /\ Len(chartData.datasets[1].data) = 2


\* ---------------------------------------------------------------------------
\* The two chart parsers on one chart part: parseChartXml (the renderer) and
\* parseChartXmlToInfo (the ChartInfo reported to the caller)
\* ---------------------------------------------------------------------------

ParseXmlToInfo ==
    /\ pc = "xml:done"
    /\ chartInfo' = parseChartXmlToInfo(1, chartXml)
    /\ pc' = "xml:both"
    /\ UNCHANGED <<colVars, rangeVars, sheetData, resolveVars, chartParts, chartXml, parsedInfo,
                   chartData, restVars>>

NextKinds == ParseXml \/ ParseXmlToInfo
SpecKinds == InitXml /\ [][NextKinds]_vars

\* the chart kind a ChartInfo chartType names: the 3-D variants name the kind of the plain type
KindNamed(type) ==
    CASE type = "bar3D" -> "bar"
      [] type = "line3D" -> "line"
      [] type = "pie3D" -> "pie"
      [] OTHER -> type

\* C26: for every chart XML, the chartType of the ChartInfo parseChartXmlToInfo reports names
\* the same chart kind as the type parseChartXml detects and the renderer draws.
ParsersAgreeOnKind ==
    pc = "xml:both" => KindNamed(chartInfo.chartType) = parsedInfo.chartType


\* the sheets of the workbook that match a description-sheet pattern and yield a codebook
SheetsWithCodebook(wb) ==
    {i \in 1..Len(wb) : IsDescriptionSheet(wb[i].name) /\ extractCodebook(wb[i].data).has}

\* C27: if any sheet matching the description-sheet patterns yields at least one
\* name/description pair, the returned WorkbookSummary has a codebook, whatever the
\* order of the sheets and even if a later matching sheet yields no pairs.
CodebookIsNotLost ==
    (result.status = "ok" /\ SheetsWithCodebook(workbook) # {}) => result.summary.codebook.has


(***************************************************************************)
(* PDF page pool (pdf.ts): processPagesConcurrently and processPageImage   *)
(***************************************************************************)
MAX_CONCURRENT_PAGES == 50
MaxPages == 3        \* documents of 0 .. MaxPages pages

\* what the awaited preprocessing and vision call of one page settle with
PageTexts == {<<"o", "k">>, <<>>}
Thrown == {[isError |-> TRUE, message |-> <<"t", "i", "m", "e", "o", "u", "t">>], [isError |-> FALSE, message |-> <<>>]}

\* a slot of new Array(n) nothing was stored in
EmptySlot == [page |-> 0, text |-> <<>>, usage |-> NoUsage]

\* error instanceof Error ? error.message : 'Unknown error'
ErrorMessage(error) == IF error.isError THEN error.message ELSE <<"U", "n", "k", "n", "o", "w", "n", " ", "e", "r", "r", "o", "r">>

\* processPageImage, try branch
PageResult(pageNumber, text, usage) == [page |-> pageNumber, text |-> text, usage |-> usage]
\* processPageImage, catch branch
PageError(pageNumber, error) ==
    [page |-> pageNumber,
     text |-> <<"[", "P", "A", "G", "E", " ">> \o ToDigits(pageNumber) \o <<" ", "E", "R", "R", "O", "R", ":", " ">> \o ErrorMessage(error) \o <<"]">>,
     usage |-> NoUsage]

\* a take that leaves the shared index where it was
KeepsIndex(cur) == cur
\* currentIndex++ : the value of currentIndex afterwards
AfterTake(cur) == cur + 1

\* one pass through the head of the worker loop, up to the await or to the exit
WorkerLoop(cur, n) ==
    IF cur < n THEN [at |-> "await", index |-> cur, next |-> AfterTake(cur), took |-> <<cur>>]
    ELSE [at |-> "done", index |-> cur, next |-> cur, took |-> <<>>]

\* the for loop that starts the workers: each runs to its first await before the
\* next is started
RECURSIVE SpawnWorkers(_, _)
SpawnWorkers(k, n) ==
    IF k = 0 THEN [currentIndex |-> 0, workers |-> <<>>, taken |-> <<>>]
    ELSE LET before == SpawnWorkers(k - 1, n)
             step == WorkerLoop(before.currentIndex, n)
         IN [currentIndex |-> step.next,
             workers |-> Append(before.workers, [at |-> step.at, index |-> step.index]),
             taken |-> before.taken \o step.took]

InitPdf ==
    /\ pc = "pdf:start"
    /\ pageImages \in {[i \in 1..n |-> i] : n \in 0..MaxPages}
    /\ concurrency \in {1, 2, MAX_CONCURRENT_PAGES}
    /\ currentIndex = 0 /\ results = <<>> /\ workers = <<>> /\ taken = <<>> /\ pagesOut = <<>>
    /\ ExcelIdle /\ BalanceIdle /\ CheckoutIdle

\* the synchronous part of processPagesConcurrently, up to `await Promise.all`
StartWorkers ==
    /\ pc = "pdf:start"
    /\ LET spawned == SpawnWorkers(Min(concurrency, Len(pageImages)), Len(pageImages))
       IN /\ results' = [i \in 1..Len(pageImages) |-> EmptySlot]
          /\ currentIndex' = spawned.currentIndex
          /\ workers' = spawned.workers
          /\ taken' = spawned.taken
    /\ pc' = "pdf:running"
    /\ UNCHANGED <<pageImages, concurrency, pagesOut, excelVars, balanceVars, checkoutVars>>

\* the await of worker w settles with this result: it is stored and the loop goes round
WorkerResumes(w, pageResult) ==
    /\ pc = "pdf:running"
    /\ workers[w].at = "await"
    /\ results' = [results EXCEPT ![workers[w].index + 1] = pageResult]
    /\ LET step == WorkerLoop(currentIndex, Len(pageImages))
       IN /\ currentIndex' = step.next
          /\ workers' = [workers EXCEPT ![w] = [at |-> step.at, index |-> step.index]]
          /\ taken' = taken \o step.took
    /\ UNCHANGED <<pc, pageImages, concurrency, pagesOut, excelVars, balanceVars, checkoutVars>>

PageSucceeds ==
    \E w \in 1..Len(workers), text \in PageTexts, usage \in VisionUsages :
        WorkerResumes(w, PageResult(workers[w].index + 1, text, usage))

PageFails ==
    \E w \in 1..Len(workers), error \in Thrown :
        WorkerResumes(w, PageError(workers[w].index + 1, error))

\* Promise.all(workers) resolves once every worker has returned
ReturnPages ==
    /\ pc = "pdf:running"
    /\ \A w \in 1..Len(workers) : workers[w].at = "done"
    /\ pagesOut' = results
    /\ pc' = "pdf:done"
    /\ UNCHANGED <<pageImages, concurrency, currentIndex, results, workers, taken, excelVars, balanceVars, checkoutVars>>

NextPdf == StartWorkers \/ PageSucceeds \/ PageFails \/ ReturnPages
SpecPdf == InitPdf /\ [][NextPdf]_vars
\* every awaited call settles and the event loop runs every continuation that is ready
SpecPdfLive == SpecPdf /\ WF_vars(NextPdf)


\* the page indices of the document
PageIndices == 0..(Len(pageImages) - 1)
\* no index was taken twice, none outside the document
TakenOnce ==
    /\ \A i, j \in 1..Len(taken) : taken[i] = taken[j] => i = j
    /\ \A i \in 1..Len(taken) : taken[i] \in PageIndices
\* what the call returned: one result per page in page order, every page taken,
\* every worker finished
ReturnedInPageOrder ==
    /\ {taken[i] : i \in 1..Len(taken)} = PageIndices
    /\ \A w \in 1..Len(workers) : workers[w].at = "done"
    /\ Len(workers) = Min(concurrency, Len(pageImages))
    /\ Len(pagesOut) = Len(pageImages)
    /\ \A i \in 1..Len(pagesOut) :
        /\ pagesOut[i].page = i
        /\ \/ pagesOut[i].text \in PageTexts /\ pagesOut[i].usage \in VisionUsages
           \/ pagesOut[i].usage = NoUsage /\ \E error \in Thrown : pagesOut[i] = PageError(i, error)
\* a failing page stores an error-text result with zero usage under its own index and
\* leaves the call running
FailureIsStored ==
    PageFails =>
        /\ pc' = "pdf:running"
        /\ \E i \in 1..Len(results) :
            /\ results[i] = EmptySlot
            /\ results'[i].page = i /\ results'[i].usage = NoUsage
            /\ results'[i].text \in {<<"[", "P", "A", "G", "E", " ">> \o ToDigits(i) \o <<" ", "E", "R", "R", "O", "R", ":", " ", "t", "i", "m", "e", "o", "u", "t", "]">>,
                                     <<"[", "P", "A", "G", "E", " ">> \o ToDigits(i) \o <<" ", "E", "R", "R", "O", "R", ":", " ", "U", "n", "k", "n", "o", "w", "n", " ", "e", "r", "r", "o", "r", "]">>}
            /\ \A j \in 1..Len(results) : j # i => results'[j] = results[j]

\* C28: for any number of pages and any interleaving of the workers, every page index is
\* taken by exactly one worker (none twice, none skipped), all workers terminate, and the
\* returned array is in page order with results[i].page = i + 1; a page whose processing
\* fails yields an error-text result with zero usage and does not abort the other pages.
PagesProcessedOnce ==
    /\ [](TakenOnce /\ (pc = "pdf:done" => ReturnedInPageOrder))
    /\ [][FailureIsStored]_vars
    /\ <>(pc = "pdf:done")

\* three pages went through two workers; the second page failed, the others did not
PagesProcessedOnceWitness ==
    /\ pc = "pdf:done"
    /\ Len(pageImages) = 3 /\ concurrency = 2
    /\ pagesOut[2] = PageError(2, [isError |-> TRUE, message |-> <<"t", "i", "m", "e", "o", "u", "t">>])
    /\ pagesOut[1].text = <<"o", "k">> /\ pagesOut[3].text = <<"o", "k">>
    /\ pagesOut[1].usage.total_tokens = 5


(***************************************************************************)
(* Balance updates (supabase.ts): deductBalance and addBalance of one user *)
(* called by requests that run concurrently                                *)
(***************************************************************************)
MaxBalance == 4      \* opening balances 0 .. MaxBalance, in the smallest unit charged
MaxAmount == 2       \* amounts 1 .. MaxAmount

\* deductBalance: Math.max(0, profile.balance - amount)
Deducted(seen, amount) == Max(0, seen - amount)
\* addBalance: profile.balance + amount
Added(seen, amount) == seen + amount
\* the balance the operation computes from the balance it read
NewBalance(op, seen, amount) == IF op = "deduct" THEN Deducted(seen, amount) ELSE Added(seen, amount)

InitBalance ==
    /\ pc = "balance:running"
    /\ balance \in 0..MaxBalance
    /\ openingBalance = balance
    /\ requests \in [1..2 -> [op : {"deduct", "add"}, amount : 1..MaxAmount, at : {"start"},
                              seen : {0}, newBalance : {0}, success : {FALSE}]]
    /\ requests[1].op = "deduct"
    /\ ExcelIdle /\ PdfIdle /\ CheckoutIdle

\* const profile = await getUserProfile(userId)
ReadProfile ==
    \E r \in 1..2 :
        /\ requests[r].at = "start"
        /\ requests' = [requests EXCEPT ![r].seen = balance, ![r].at = "read"]
        /\ UNCHANGED <<pc, balance, openingBalance, excelVars, pdfVars, checkoutVars>>

\* await updateUserBalance(userId, newBalance): the row is written
WriteBalance ==
    \E r \in 1..2 :
        /\ requests[r].at = "read"
        /\ LET newBalance == NewBalance(requests[r].op, requests[r].seen, requests[r].amount)
           IN /\ balance' = newBalance
              /\ requests' = [requests EXCEPT ![r].newBalance = newBalance, ![r].success = TRUE,
                                              ![r].at = "done"]
        /\ UNCHANGED <<pc, openingBalance, excelVars, pdfVars, checkoutVars>>

\* await updateUserBalance(userId, newBalance): the update returns an error
WriteFails ==
    \E r \in 1..2 :
        /\ requests[r].at = "read"
        /\ requests' = [requests EXCEPT
                           ![r].newBalance = NewBalance(requests[r].op, requests[r].seen, requests[r].amount),
                           ![r].success = FALSE, ![r].at = "done"]
        /\ UNCHANGED <<pc, balance, openingBalance, excelVars, pdfVars, checkoutVars>>

NextBalance == ReadProfile \/ WriteBalance \/ WriteFails
SpecBalance == InitBalance /\ [][NextBalance]_vars

\* the operation of request r applied to a balance
Applied(r, b) == NewBalance(requests[r].op, b, requests[r].amount)

\* C29: for two requests of the same user that run concurrently and call deductBalance
\* and deductBalance (or deductBalance and addBalance), under every interleaving of their
\* read and write steps the stored balance afterwards equals the result of applying the
\* two operations one after the other, and it is never negative.
NoBalanceUpdateIsLost ==
    /\ balance >= 0
    /\ (\A r \in 1..2 : requests[r].at = "done" /\ requests[r].success) =>
           balance \in {Applied(2, Applied(1, openingBalance)), Applied(1, Applied(2, openingBalance))}


(***************************************************************************)
(* Stripe checkout (stripe.ts): processCompletedCheckout for one session,  *)
(* called by the webhook, the /payment/success page and                    *)
(* GET /api/payments/success                                               *)
(***************************************************************************)
Callers == {"webhook", "page", "api"}

NotCalled == [at |-> "idle", seen |-> 0, returned |-> "none"]

InitCheckout ==
    /\ pc = "checkout:running"
    /\ session \in [paid : BOOLEAN, total_credit : 1..MaxAmount]
    /\ balance \in 0..1
    /\ openingBalance = balance
    /\ requests = <<>>
    /\ checkouts = [c \in Callers |-> NotCalled]
    /\ transactions = <<>>
    /\ ExcelIdle /\ PdfIdle

\* the caller receives the session id and calls processCompletedCheckout
CallProcess ==
    \E c \in Callers :
        /\ checkouts[c].at = "idle"
        /\ checkouts' = [checkouts EXCEPT ![c].at = "start"]
        /\ UNCHANGED <<pc, session, transactions, balance, openingBalance, requests, excelVars, pdfVars>>

\* stripe.checkout.sessions.retrieve and the payment_status and metadata tests
RetrieveSession ==
    \E c \in Callers :
        /\ checkouts[c].at = "start"
        /\ checkouts' = IF session.paid /\ session.total_credit > 0
                        THEN [checkouts EXCEPT ![c].at = "paid"]
                        ELSE [checkouts EXCEPT ![c].at = "done", ![c].returned = "false"]
        /\ UNCHANGED <<pc, session, transactions, balance, openingBalance, requests, excelVars, pdfVars>>

\* addBalance: const profile = await getUserProfile(userId)
CreditReads ==
    \E c \in Callers :
        /\ checkouts[c].at = "paid"
        /\ checkouts' = [checkouts EXCEPT ![c].at = "read", ![c].seen = balance]
        /\ UNCHANGED <<pc, session, transactions, balance, openingBalance, requests, excelVars, pdfVars>>

\* addBalance: await updateUserBalance(userId, profile.balance + amount) writes the row
CreditWrites ==
    \E c \in Callers :
        /\ checkouts[c].at = "read"
        /\ balance' = Added(checkouts[c].seen, session.total_credit)
        /\ checkouts' = [checkouts EXCEPT ![c].at = "credited"]
        /\ UNCHANGED <<pc, session, transactions, openingBalance, requests, excelVars, pdfVars>>

\* addBalance reports no success: processCompletedCheckout returns false
CreditFails ==
    \E c \in Callers :
        /\ checkouts[c].at = "read"
        /\ checkouts' = [checkouts EXCEPT ![c].at = "done", ![c].returned = "false"]
        /\ UNCHANGED <<pc, session, transactions, balance, openingBalance, requests, excelVars, pdfVars>>

\* logTransaction(userId, 'topup', totalCredit, description, session.id); return true
LogAndReturn ==
    \E c \in Callers :
        /\ checkouts[c].at = "credited"
        /\ transactions' = Append(transactions, [type |-> "topup", amount |-> session.total_credit])
        /\ checkouts' = [checkouts EXCEPT ![c].at = "done", ![c].returned = "true"]
        /\ UNCHANGED <<pc, session, balance, openingBalance, requests, excelVars, pdfVars>>

NextCheckout ==
    CallProcess \/ RetrieveSession \/ CreditReads \/ CreditWrites \/ CreditFails \/ LogAndReturn
SpecCheckout == InitCheckout /\ [][NextCheckout]_vars

\* the callers whose call reported the session as processed now
ReportedProcessed == {c \in Callers : checkouts[c].returned = "true"}

\* C30: however many times and in whatever order processCompletedCheckout runs for the
\* same paid session, the balance increases by the session's total_credit exactly once
\* and later invocations report the session as already processed.
SessionCreditedOnce ==
    /\ balance <= openingBalance + session.total_credit
    /\ Cardinality(ReportedProcessed) <= 1
    /\ Len(transactions) <= 1

====
